---- MODULE Spec2Model ----
(***************************************************************************)
(* Verification model of the lendingwise document pipeline.                *)
(*                                                                         *)
(*   - the pipeline nodes (Ingestion, TamperCheck, OCR, Classification,    *)
(*     Extract, ValidationCheck) as transformers of a "world" record that  *)
(*     carries the PipelineState, the S3 objects and the tblaiagents rows; *)
(*   - the two drivers of the nodes: the SQS worker (sqs_worker.py) and    *)
(*     the LangGraph workflow (Nodes/pipeline.py).                         *)
(***************************************************************************)
EXTENDS Integers, Naturals, Sequences, FiniteSets, TLC

(***************************************************************************)
(* Bounds of the model.                                                    *)
(***************************************************************************)
NDocs == 2          \* documents that can be uploaded
MaxCount == 2       \* saturation point of the history counters

Docs == 1..NDocs

Sat(n) == IF n < MaxCount THEN n + 1 ELSE MaxCount

VARIABLES
    fate,       \* per document: "new", "fresh", "backlog", "skipped", "dropped", "running",
                \*               "finished", "error"
    cur,        \* document of the workflow run in progress (0: none)
    pc,         \* node the workflow runs next ("idle": no run in progress)
    state,      \* the PipelineState of the most recent run
    s3,         \* objects in the bucket: <<kind, doc>>
    rows,       \* tblaiagents, one row per document
    emitted,    \* per document: the doc_verification_result generated ("none" if none)
    stages,     \* nodes entered during the most recent run, in order of first entry
    lastError,  \* exception that ended the most recent run ("none" if none)
    retries,    \* OCR re-runs of the run in progress (saturating)
    alive,      \* the worker loop is running
    taken,      \* documents taken by the worker loop (saturating)
    caught,     \* exceptions caught by the worker loop (saturating)
    given,      \* external answers handed to the node applied last; in the specifications
                \* of one function, what it is applied to or what it chose
    watcher     \* the cross-validation watcher: its loop and what it has recorded

vars == <<fate, cur, pc, state, s3, rows, emitted, stages, lastError, retries,
          alive, taken, caught, given, watcher>>

(***************************************************************************)
(* Values.  Python's None is the record with present = FALSE; "" is the    *)
(* empty or missing string.                                                *)
(***************************************************************************)
Categories == {"", "identity", "bank_statement"}   \* coarse routes used here (settings.ROUTE_LABELS)

NoIngestion == [present |-> FALSE, doc |-> 0, hasKey |-> FALSE, name |-> "",
                metaName |-> "", category |-> "", agentIdentity |-> FALSE]
NoTamper == [present |-> FALSE, status |-> "", hvr |-> FALSE, failed |-> FALSE]
NoOCR == [present |-> FALSE, doc_category |-> "", doc_type |-> "", page |-> <<>>,
          tamper_check_passed |-> FALSE]
NoClassification == [present |-> FALSE, expected_category |-> "", detected_doc_type |-> "",
                     passed |-> FALSE, message |-> "", subtype_expected |-> "",
                     subtype_detected |-> "", category_match |-> FALSE,
                     name_mismatch |-> FALSE, metadata_db_name_match |-> FALSE,
                     actual_document_name |-> "", actual_document_match |-> FALSE]
NoExtraction == [present |-> FALSE, passed |-> FALSE, message |-> "", error |-> FALSE]

\* PipelineState(): every sub-state defaults to None.
PipelineState == [ingestion |-> NoIngestion, tamper_check |-> NoTamper, ocr |-> NoOCR,
                  classification |-> NoClassification, extraction |-> NoExtraction]

\* A tblaiagents row as create_agent_record inserts it.
NewRow == [exists |-> TRUE, document_status |-> "NULL", cross_validation |-> FALSE,
           doc_verification_result |-> "NULL", verified_result_s3_path |-> FALSE]
NoRow == [exists |-> FALSE, document_status |-> "NULL", cross_validation |-> FALSE,
          doc_verification_result |-> "NULL", verified_result_s3_path |-> FALSE]

\* The world a node acts on.  err # "none": the node raised and err names the exception.
World(st, queue, bucket, table, results) ==
    [st |-> st, fate |-> queue, s3 |-> bucket, rows |-> table, emitted |-> results,
     err |-> "none", log |-> <<>>]

Raise(w, e) == [w EXCEPT !.err = e]
InLog(log, node) == \E i \in 1..Len(log) : log[i] = node
Enter(w, node) == IF InLog(w.log, node) THEN w ELSE [w EXCEPT !.log = Append(@, node)]

(***************************************************************************)
(* The SQS message and the sidecar metadata of an uploaded document, as    *)
(* Ingestion reads them.                                                   *)
(***************************************************************************)
FileName == "scan.png"     \* os.path.basename of a non-empty object key

DbNames == {"", "Driver's License", "Birth Certificate", "Passport"}
MetaNames == {"", "driver's license", "Passport"}

AllMessages == [hasKey : BOOLEAN, dbName : DbNames, metaName : MetaNames,
                category : Categories, agentIdentity : BOOLEAN]

\* The messages the drivers are run on.
Messages ==
    { [hasKey |-> TRUE, dbName |-> "Driver's License", metaName |-> "driver's license",
       category |-> "identity", agentIdentity |-> FALSE],
      [hasKey |-> TRUE, dbName |-> "Birth Certificate", metaName |-> "",
       category |-> "", agentIdentity |-> TRUE],
      [hasKey |-> TRUE, dbName |-> "", metaName |-> "Passport",
       category |-> "bank_statement", agentIdentity |-> FALSE],
      [hasKey |-> FALSE, dbName |-> "", metaName |-> "",
       category |-> "identity", agentIdentity |-> FALSE] }

(***************************************************************************)
(* Ingestion: takes message d off the queue and populates state.ingestion. *)
(* The message is deleted before the state is built.  clientsOk = FALSE:   *)
(* creating the SQS/S3 clients raised, before any message was received.    *)
(***************************************************************************)
Ingestion(w0, d, m, clientsOk) ==
    LET w == Enter(w0, "Ingestion")
        file_name == IF m.hasKey THEN FileName ELSE ""
        document_name == IF m.dbName # "" THEN m.dbName
                         ELSE IF m.metaName # "" THEN m.metaName
                         ELSE file_name
    IN  IF ~clientsOk THEN Raise(w, "ClientSetup")
        ELSE [w EXCEPT !.fate[d] = "running",
                       !.st.ingestion =
                           [present |-> TRUE, doc |-> d, hasKey |-> m.hasKey,
                            name |-> document_name, metaName |-> m.metaName,
                            category |-> m.category,
                            agentIdentity |-> m.agentIdentity]]

(***************************************************************************)
(* OCR.  o is the outcome of run_pipeline: it raises, or it returns the    *)
(* routed doc_type and the fields of page 1.                               *)
(***************************************************************************)
DOC_CATEGORY == ""      \* settings.DOC_CATEGORY when the environment does not set it

OCR(w0, o) ==
    LET w == Enter(w0, "OCR")
        st == w.st
        doc_category == IF st.ingestion.category # "" THEN st.ingestion.category
                        ELSE DOC_CATEGORY
        tamper_check_passed == st.tamper_check.status \in {"OK"}
    IN  IF ~st.ingestion.present THEN Raise(w, "IngestionStateMissing")
        ELSE IF ~st.tamper_check.present THEN Raise(w, "TamperStateMissing")
        ELSE IF ~st.ingestion.hasKey THEN Raise(w, "MissingBucketKey")
        ELSE IF o.raises THEN Raise(w, "OCRFailed")
        ELSE [w EXCEPT !.st.ocr =
                 [present |-> TRUE, doc_category |-> doc_category,
                  doc_type |-> o.doc_type, page |-> o.page,
                  tamper_check_passed |-> tamper_check_passed]]

(***************************************************************************)
(* tools/db.py.  An optional value is <<v>> (given) or <<>> (None).        *)
(***************************************************************************)
None == <<>>
Some(v) == <<v>>

UpdatableColumns == {"file_s3_location", "document_status", "uploadedat", "metadata_s3_path",
                     "verified_result_s3_path", "cross_validation",
                     "doc_verification_result"}
TrackedColumns == {"document_status", "cross_validation", "doc_verification_result",
                   "verified_result_s3_path"}

\* The row after "UPDATE ... SET col = val" for the columns of the set list.
SetColumns(row, updates, cols) ==
    [c \in DOMAIN row |-> IF c \in cols THEN updates[c][1] ELSE row[c]]

\* Mutation of lines 136-155: every column of updates with a value is set.
update_tblaigents_by_keys_anyColumn(table, d, FPCID, checklistId, updates, document_name, dbOk) ==
    LET set_parts == {c \in DOMAIN updates : updates[c] # None}
    IN  IF ~FPCID \/ ~checklistId \/ document_name = "" THEN table
        ELSE IF set_parts = {} THEN table
        ELSE IF ~dbOk \/ ~table[d].exists THEN table
        ELSE [table EXCEPT ![d] = SetColumns(@, updates, set_parts \cap DOMAIN @)]

\* update_tblaigents_by_keys(FPCID, checklistId, updates, document_name): FPCID and
\* checklistId tell whether the key is truthy, document_name is the name ("" when missing);
\* the row of document d is the one the WHERE clause selects.  dbOk = FALSE: mysql raised.
update_tblaigents_by_keys(table, d, FPCID, checklistId, updates, document_name, dbOk) ==
    LET set_parts == {c \in UpdatableColumns \cap DOMAIN updates : updates[c] # None}
    IN  IF ~FPCID \/ ~checklistId \/ document_name = "" THEN table
        ELSE IF set_parts = {} THEN table
        ELSE IF ~dbOk \/ ~table[d].exists THEN table
        ELSE [table EXCEPT ![d] = SetColumns(@, updates, set_parts \cap DOMAIN @)]

\* Python binds a call only if every parameter without a default is supplied.
RequiredParams == {"FPCID", "checklistId", "updates"}
Binds(supplied) == RequiredParams \subseteq supplied

\* hasattr(obj, field) on a pydantic model: the field is declared on the model.
hasattr(obj, field) == field \in DOMAIN obj

(***************************************************************************)
(* utils/tamper_detection.py: tamper_check.  f describes the file: whether *)
(* os.stat works, whether the content analysis raises, and the anomalies.  *)
(***************************************************************************)
Files == [statOk : BOOLEAN, analysisRaises : BOOLEAN, pdfIssues : BOOLEAN,
          datesReversed : BOOLEAN, baselineDiffers : BOOLEAN]

tamper_check(f) ==
    LET afterPdf == IF f.pdfIssues THEN "SUSPICIOUS" ELSE "OK"
        afterDates == IF f.datesReversed THEN "SUSPICIOUS" ELSE afterPdf
        afterBaseline == IF f.baselineDiffers THEN "TAMPERED" ELSE afterDates
    IN  IF ~f.statOk THEN [raised |-> TRUE, status |-> ""]
        ELSE IF f.analysisRaises THEN [raised |-> FALSE, status |-> "ERROR"]
        ELSE [raised |-> FALSE, status |-> afterBaseline]

\* tamper_check_s3_file: download the object, then analyse it.
tamper_check_s3_file(downloadOk, f) ==
    IF ~downloadOk THEN [raised |-> TRUE, status |-> ""] ELSE tamper_check(f)

(***************************************************************************)
(* TamperCheck node.                                                       *)
(***************************************************************************)
\* Lines 128-140: the except clause of TamperCheck.
TamperErrorState == [present |-> TRUE, status |-> "ERROR", hvr |-> TRUE, failed |-> TRUE]

\* Mutation of lines 128-140: the failure is not caught.
TamperFailed_uncaught(w) == Raise(w, "TamperCheckFailed")

TamperFailed(w) == [w EXCEPT !.st.tamper_check = TamperErrorState]

\* Mutation of line 90: only TAMPERED escalates.
HumanVerificationRequired_tamperedOnly(status) == status \in {"TAMPERED"}

\* Line 90.
HumanVerificationRequired(status) == status \in {"SUSPICIOUS", "TAMPERED"}

\* The call at lines 118-123 passes FPCID, LMRId, updates and document_name.
TamperFlagCall == {"FPCID", "LMRId", "updates", "document_name"}

TamperCheck(w0, downloadOk, f, dbOk) ==
    LET w == Enter(w0, "Tamper Check")
        st == w.st
        tamper_results == tamper_check_s3_file(downloadOk, f)
        human_verification_required == HumanVerificationRequired(tamper_results.status)
        flagged == IF human_verification_required /\ Binds(TamperFlagCall)
                   THEN update_tblaigents_by_keys(w.rows, st.ingestion.doc, TRUE,
                            "checklistId" \in TamperFlagCall,
                            [cross_validation |-> Some(TRUE)], st.ingestion.name, dbOk)
                   ELSE w.rows
    IN  IF ~st.ingestion.present THEN Raise(w, "IngestionStateMissing")
        ELSE IF ~st.ingestion.hasKey THEN Raise(w, "MissingBucketKey")
        ELSE IF tamper_results.raised THEN TamperFailed(w)
        ELSE IF ~human_verification_required /\ tamper_results.status = "ERROR"
             THEN TamperFailed(w)
        ELSE [w EXCEPT !.st.tamper_check =
                           [present |-> TRUE, status |-> tamper_results.status,
                            hvr |-> human_verification_required, failed |-> FALSE],
                       !.rows = flagged]

(***************************************************************************)
(* Strings.  The names, OCR fields and model replies come from the finite  *)
(* sets below; str.lower/strip and the substring test "w in s" are tables  *)
(* over those strings.                                                     *)
(***************************************************************************)
\* Page 1 of the OCR result: the (field, value) pairs in order.
Pages ==
    { <<<<"document_type", "Driver License">>, <<"surname", "Doe">>>>,
      <<<<"title", "Passport">>, <<"surname", "Doe">>>>,
      <<<<"title", "Identification Card">>, <<"surname", "Doe">>>>,
      <<<<"surname", "Doe">>, <<"given", "John">>>> }

\* Replies of the chat model: a subtype label, or a document name.
SubtypeLabels == {"passport", "birth_certificate", "national_id", "unknown"}
NameReplies == {"Birth Certificate", "Passport", "Unknown Document", ""}
NoReply == [subtypeOk |-> FALSE, subtype |-> "", nameOk |-> FALSE, name |-> ""]
LLMReplies ==
    { r \in [subtypeOk : BOOLEAN, subtype : SubtypeLabels \cup {""}, nameOk : BOOLEAN,
             name : NameReplies] :
        /\ r.subtypeOk <=> r.subtype # ""
        /\ ~r.nameOk => r.name = "" }

\* s.strip().lower()
Lower(s) ==
    CASE s = " " -> ""
      [] s = " None " -> "none"
      [] s = "Aadhaar Card" -> "aadhaar card"
      [] s = "Birth Certificate" -> "birth certificate"
      [] s = "Doe" -> "doe"
      [] s = "Driver License" -> "driver license"
      [] s = "Driver's License" -> "driver's license"
      [] s = "H1B_Visa" -> "h1b_visa"
      [] s = "Identification Card" -> "identification card"
      [] s = "John" -> "john"
      [] s = "Library Card" -> "library card"
      [] s = "N/A" -> "n/a"
      [] s = "NA" -> "na"
      [] s = "NULL" -> "null"
      [] s = "Passport" -> "passport"
      [] s = "Passport Card" -> "passport card"
      [] s = "Social Security Card" -> "social security card"
      [] s = "State ID" -> "state id"
      [] s = "Unknown Document" -> "unknown document"
      [] s = "document_type: Driver License\nsurname: Doe" -> "document_type: driver license\nsurname: doe"
      [] s = "surname: Doe\ngiven: John" -> "surname: doe\ngiven: john"
      [] s = "title: Identification Card\nsurname: Doe" -> "title: identification card\nsurname: doe"
      [] s = "title: Passport\nsurname: Doe" -> "title: passport\nsurname: doe"
      [] OTHER -> s

SubstringFacts ==
    { <<"aadhaar", "aadhaar card">>, <<"aadhaar", "aadhaar_card">>,
      <<"aadhaar card", "aadhaar card">>, <<"aadhaar_card", "aadhaar_card">>,
      <<"agreement", "lease_agreement">>, <<"authorization", "employment_authorization_document">>,
      <<"bank", "bank_statement">>, <<"bill", "utility_bill">>,
      <<"birth", "birth certificate">>, <<"birth", "birth_certificate">>,
      <<"birth certificate", "birth certificate">>, <<"birth_cert", "birth_certificate">>,
      <<"card", "aadhaar card">>, <<"card", "aadhaar_card">>,
      <<"card", "global_entry_card">>, <<"card", "insurance_card">>,
      <<"card", "library card">>, <<"card", "passport card">>,
      <<"card", "passport_card">>, <<"card", "permanent_resident_card">>,
      <<"card", "social security card">>, <<"card", "social_security_card">>,
      <<"card", "title surname identification card doe">>, <<"card", "title: identification card\nsurname: doe">>,
      <<"card", "tsa_precheck_card">>, <<"certificate", "birth certificate">>,
      <<"certificate", "birth_certificate">>, <<"certificate", "certificate_of_citizenship">>,
      <<"certificate", "certificate_of_naturalization">>, <<"certificate", "marriage_certificate">>,
      <<"check", "tsa_precheck_card">>, <<"check", "voided_check">>,
      <<"citizenship", "certificate_of_citizenship">>, <<"consular", "consular_id">>,
      <<"decree", "divorce_decree">>, <<"deposit", "direct_deposit">>,
      <<"digital", "digital_id">>, <<"direct", "direct_deposit">>,
      <<"divorce", "divorce_decree">>, <<"document", "document_type surname driver license doe">>,
      <<"document", "document_type: driver license\nsurname: doe">>, <<"document", "employment_authorization_document">>,
      <<"document", "identity_document">>, <<"document", "unknown document">>,
      <<"driver", "document_type surname driver license doe">>, <<"driver", "document_type: driver license\nsurname: doe">>,
      <<"driver", "driver's license">>, <<"driver", "mobile_drivers_license">>,
      <<"driver license", "document_type surname driver license doe">>, <<"driver license", "document_type: driver license\nsurname: doe">>,
      <<"driver's license", "driver's license">>, <<"driving", "driving_license">>,
      <<"employment", "employment_authorization_document">>, <<"entry", "global_entry_card">>,
      <<"entry", "reentry_permit">>, <<"global", "global_entry_card">>,
      <<"id", "consular_id">>, <<"id", "digital_id">>,
      <<"id", "identity_document">>, <<"id", "military_id">>,
      <<"id", "national_id">>, <<"id", "other_identity">>,
      <<"id", "permanent_resident_card">>, <<"id", "real_id">>,
      <<"id", "state id">>, <<"id", "state_id">>,
      <<"id", "student_id">>, <<"id", "title surname identification card doe">>,
      <<"id", "title: identification card\nsurname: doe">>, <<"id", "tribal_id">>,
      <<"id", "veteran_id">>, <<"id", "voided_check">>,
      <<"identification", "title surname identification card doe">>, <<"identification", "title: identification card\nsurname: doe">>,
      <<"identity_document", "identity_document">>, <<"insurance", "insurance_card">>,
      <<"lease", "lease_agreement">>, <<"library card", "library card">>,
      <<"license", "document_type surname driver license doe">>, <<"license", "document_type: driver license\nsurname: doe">>,
      <<"license", "driver's license">>, <<"license", "driving_license">>,
      <<"license", "mobile_drivers_license">>, <<"license", "professional_license">>,
      <<"marriage", "marriage_certificate">>, <<"marriage_cert", "marriage_certificate">>,
      <<"military", "military_id">>, <<"mobile", "mobile_drivers_license">>,
      <<"naturalization", "certificate_of_naturalization">>, <<"other_identity", "other_identity">>,
      <<"passport", "passport">>, <<"passport", "passport card">>,
      <<"passport", "passport_card">>, <<"passport", "title surname passport doe">>,
      <<"passport", "title: passport\nsurname: doe">>, <<"passport card", "passport card">>,
      <<"permanent", "permanent_resident_card">>, <<"permit", "reentry_permit">>,
      <<"precheck", "tsa_precheck_card">>, <<"professional", "professional_license">>,
      <<"real", "real_id">>, <<"reentry", "reentry_permit">>,
      <<"registration", "voter_registration">>, <<"resident", "permanent_resident_card">>,
      <<"scan.png", "scan.png">>, <<"security", "social security card">>,
      <<"security", "social_security_card">>, <<"social", "social security card">>,
      <<"social", "social_security_card">>, <<"social security", "social security card">>,
      <<"social security card", "social security card">>, <<"state", "bank_statement">>,
      <<"state", "state id">>, <<"state", "state_id">>,
      <<"state id", "state id">>, <<"statement", "bank_statement">>,
      <<"student", "student_id">>, <<"tribal", "tribal_id">>,
      <<"tsa", "tsa_precheck_card">>, <<"unknown document", "unknown document">>,
      <<"us", "us_visa">>, <<"utility", "utility_bill">>,
      <<"veteran", "veteran_id">>, <<"visa", "us_visa">>,
      <<"voided", "voided_check">>, <<"voter", "voter_registration">> }

\* w in s
In(w, s) == w = "" \/ <<w, s>> \in SubstringFacts

\* sep.join(parts)
RECURSIVE Join(_, _)
Join(parts, sep) ==
    IF parts = <<>> THEN ""
    ELSE IF Len(parts) = 1 THEN parts[1]
    ELSE parts[1] \o sep \o Join(Tail(parts), sep)

SelectShort(values) == SelectSeq(values, LAMBDA v : Len(v) < 120)

(***************************************************************************)
(* The resolvers of classification_node.py.                                *)
(***************************************************************************)
\* Lines 19-116, on n = (name or "").strip().lower().
SubtypeOfName(n) ==
        IF n = "" THEN "other_identity" ELSE
        IF ((In("driver", n) \/ In("driving", n)) /\ In("license", n)) THEN
                "driving_license" ELSE
        IF (In("mobile", n) /\ (In("driver", n) \/ In("license", n))) THEN
                "mobile_drivers_license" ELSE
        IF ((In("state", n) /\ (In("id", n) \/ In("identification", n))) /\ ~In("driver",
                n)) THEN "state_id" ELSE
        IF (In("real", n) /\ In("id", n)) THEN "real_id" ELSE
        IF (In("passport", n) /\ In("card", n)) THEN "passport_card" ELSE
        IF (In("passport", n) /\ ~In("card", n)) THEN "passport" ELSE
        IF ((In("birth", n) /\ In("certificate", n)) \/ In("birth_cert", n)) THEN
                "birth_certificate" ELSE
        IF ((In("marriage", n) /\ In("certificate", n)) \/ In("marriage_cert", n)) THEN
                "marriage_certificate" ELSE
        IF (In("divorce", n) /\ (In("decree", n) \/ In("certificate", n))) THEN
                "divorce_decree" ELSE
        IF ((In("social", n) /\ In("security", n)) \/ In("ssn", n) \/ In("ss_card", n)) THEN
                "social_security_card" ELSE
        IF ((\E w \in {"aadhaar", "aadhar", "adhar", "uidai"} : In(w, n)) \/
                In("aadhaar_card", n)) THEN "aadhaar_card" ELSE
        IF ((In("permanent", n) /\ In("resident", n)) \/ In("green_card", n) \/ In("prc", n)
                \/ In("i-551", n)) THEN "permanent_resident_card" ELSE
        IF ((In("naturalization", n) /\ In("certificate", n)) \/ In("n-550", n) \/
                In("n-570", n)) THEN "certificate_of_naturalization" ELSE
        IF ((In("citizenship", n) /\ In("certificate", n)) \/ In("n-560", n) \/ In("n-561",
                n)) THEN "certificate_of_citizenship" ELSE
        IF ((In("employment", n) /\ In("authorization", n)) \/ In("ead", n) \/ In("i-766",
                n)) THEN "employment_authorization_document" ELSE
        IF (In("i-94", n) \/ (In("arrival", n) /\ In("departure", n))) THEN "form_i94" ELSE
        IF ((In("visa", n) /\ (In("us", n) \/ In("american", n))) \/ In("h1b", n) \/
                In("h-1b", n)) THEN "us_visa" ELSE
        IF ((In("reentry", n) /\ In("permit", n)) \/ In("i-327", n)) THEN "reentry_permit"
                ELSE
        IF ((In("military", n) /\ In("id", n)) \/ In("cac", n) \/ In("common_access", n))
                THEN "military_id" ELSE
        IF ((In("veteran", n) /\ In("id", n)) \/ In("vic", n)) THEN "veteran_id" ELSE
        IF ((In("tribal", n) /\ In("id", n)) \/ In("tribal_card", n)) THEN "tribal_id" ELSE
        IF ((In("global", n) /\ In("entry", n)) \/ In("nexus", n)) THEN "global_entry_card"
                ELSE
        IF ((In("tsa", n) /\ In("precheck", n)) \/ In("precheck", n)) THEN
                "tsa_precheck_card" ELSE
        IF (In("voter", n) /\ (In("registration", n) \/ In("card", n))) THEN
                "voter_registration" ELSE
        IF ((In("professional", n) /\ In("license", n)) \/ (In("license", n) /\ (\E w \in
                {"medical", "legal", "contractor", "nursing", "teaching"} : In(w, n)))) THEN
                "professional_license" ELSE
        IF ((In("student", n) /\ In("id", n)) \/ In("student_card", n)) THEN "student_id"
                ELSE
        IF ((In("utility", n) /\ In("bill", n)) \/ (\E w \in {"electric", "gas", "water",
                "internet", "cable"} : In(w, n))) THEN "utility_bill" ELSE
        IF ((In("lease", n) /\ In("agreement", n)) \/ In("rental_agreement", n)) THEN
                "lease_agreement" ELSE
        IF ((In("bank", n) /\ In("statement", n)) \/ In("account_statement", n)) THEN
                "bank_statement" ELSE
        IF ((In("insurance", n) /\ In("card", n)) \/ (\E w \in {"health_insurance",
                "auto_insurance"} : In(w, n))) THEN "insurance_card" ELSE
        IF ((In("voided", n) /\ In("check", n)) \/ In("void_check", n)) THEN "voided_check"
                ELSE
        IF ((In("direct", n) /\ In("deposit", n)) \/ In("dd_form", n)) THEN "direct_deposit"
                ELSE
        IF ((In("consular", n) /\ In("id", n)) \/ In("matricula", n)) THEN "consular_id"
                ELSE
        IF ((In("digital", n) /\ In("id", n)) \/ (\E w \in {"id.me", "login.gov"} : In(w,
                n))) THEN "digital_id" ELSE
        IF (\E w \in {"id", "identification", "license", "card", "certificate", "document"}
                : In(w, n)) THEN "identity_document" ELSE
        "other_identity"

_map_display_name_to_identity_subtype(name) == SubtypeOfName(Lower(name))

allowed_types ==
    {"driving_license", "mobile_drivers_license", "state_id", "real_id", "passport",
     "passport_card", "birth_certificate", "marriage_certificate", "divorce_decree",
     "social_security_card", "permanent_resident_card", "certificate_of_naturalization",
     "certificate_of_citizenship", "employment_authorization_document", "form_i94",
     "us_visa", "reentry_permit", "military_id", "veteran_id", "tribal_id",
     "global_entry_card", "tsa_precheck_card", "voter_registration",
     "professional_license", "student_id", "utility_bill", "lease_agreement",
     "bank_statement", "insurance_card", "voided_check", "direct_deposit", "consular_id",
     "digital_id", "identity_document", "other_identity"}

\* Lines 289-300: the label of the model, or the fallback when the call fails.
SubtypeFromModel(blob, reply) ==
    IF ~reply.subtypeOk
    THEN (IF \E w \in {"id", "license", "card", "certificate", "document", "number"} :
                In(w, blob)
          THEN "identity_document" ELSE "other_identity")
    ELSE IF reply.subtype \in allowed_types THEN reply.subtype
    ELSE IF \E w \in {"id", "license", "card", "certificate"} : In(w, reply.subtype)
         THEN "identity_document" ELSE "other_identity"

\* Lines 147-236 on the text blob; llm is what lines 238-300 return.
SubtypeOfBlob(blob, llm) ==
        IF ((\E w \in {"driver", "driving"} : In(w, blob)) /\ In("license", blob)) THEN (IF
                (In("mobile", blob) \/ In("mdl", blob)) THEN "mobile_drivers_license" ELSE
                "driving_license") ELSE
        IF ((In("state", blob) /\ (In("id", blob) \/ In("identification", blob))) /\
                ~In("driver", blob)) THEN (IF In("real", blob) THEN "real_id" ELSE
                "state_id") ELSE
        IF In("passport card", blob) THEN "passport_card" ELSE
        IF In("passport", blob) THEN "passport" ELSE
        IF ((In("birth", blob) /\ In("certificate", blob)) \/ In("birth_cert", blob)) THEN
                "birth_certificate" ELSE
        IF (In("marriage", blob) /\ In("certificate", blob)) THEN "marriage_certificate"
                ELSE
        IF (In("divorce", blob) /\ (In("decree", blob) \/ In("certificate", blob))) THEN
                "divorce_decree" ELSE
        IF ((In("social", blob) /\ In("security", blob)) \/ In("ssn", blob)) THEN
                "social_security_card" ELSE
        IF ((\E w \in {"aadhaar", "aadhar", "adhar", "uidai", "government of india"} : In(w,
                blob)) \/ In("unique identification", blob)) THEN "aadhaar_card" ELSE
        IF ((In("permanent", blob) /\ In("resident", blob)) \/ In("green_card", blob) \/
                In("i-551", blob)) THEN "permanent_resident_card" ELSE
        IF ((In("naturalization", blob) /\ In("certificate", blob)) \/ (\E w \in {"n-550",
                "n-570"} : In(w, blob))) THEN "certificate_of_naturalization" ELSE
        IF ((In("citizenship", blob) /\ In("certificate", blob)) \/ (\E w \in {"n-560",
                "n-561"} : In(w, blob))) THEN "certificate_of_citizenship" ELSE
        IF ((In("employment", blob) /\ In("authorization", blob)) \/ In("ead", blob) \/
                In("i-766", blob)) THEN "employment_authorization_document" ELSE
        IF (In("i-94", blob) \/ (In("arrival", blob) /\ In("departure", blob))) THEN
                "form_i94" ELSE
        IF ((In("visa", blob) /\ (In("us", blob) \/ In("american", blob))) \/ In("h1b",
                blob) \/ In("h-1b", blob)) THEN "us_visa" ELSE
        IF ((In("reentry", blob) /\ In("permit", blob)) \/ In("i-327", blob)) THEN
                "reentry_permit" ELSE
        IF ((In("military", blob) /\ In("id", blob)) \/ In("cac", blob) \/
                In("common_access", blob)) THEN "military_id" ELSE
        IF ((In("veteran", blob) /\ In("id", blob)) \/ In("vic", blob)) THEN "veteran_id"
                ELSE
        IF (In("tribal", blob) /\ In("id", blob)) THEN "tribal_id" ELSE
        IF ((In("global", blob) /\ In("entry", blob)) \/ In("nexus", blob)) THEN
                "global_entry_card" ELSE
        IF ((In("tsa", blob) /\ In("precheck", blob)) \/ In("precheck", blob)) THEN
                "tsa_precheck_card" ELSE
        IF (In("voter", blob) /\ (In("registration", blob) \/ In("card", blob))) THEN
                "voter_registration" ELSE
        IF ((In("professional", blob) /\ In("license", blob)) \/ (In("license", blob) /\ (\E
                w \in {"medical", "legal", "contractor", "nursing", "teaching"} : In(w,
                blob)))) THEN "professional_license" ELSE
        IF (In("student", blob) /\ In("id", blob)) THEN "student_id" ELSE
        IF ((In("utility", blob) /\ In("bill", blob)) \/ (\E w \in {"electric", "gas",
                "water", "internet", "cable"} : In(w, blob))) THEN "utility_bill" ELSE
        IF ((In("lease", blob) /\ In("agreement", blob)) \/ In("rental_agreement", blob))
                THEN "lease_agreement" ELSE
        IF (In("bank", blob) /\ In("statement", blob)) THEN "bank_statement" ELSE
        IF (In("insurance", blob) /\ In("card", blob)) THEN "insurance_card" ELSE
        IF (In("voided", blob) /\ In("check", blob)) THEN "voided_check" ELSE
        IF (In("direct", blob) /\ In("deposit", blob)) THEN "direct_deposit" ELSE
        IF ((In("consular", blob) /\ In("id", blob)) \/ In("matricula", blob)) THEN
                "consular_id" ELSE
        IF ((In("digital", blob) /\ In("id", blob)) \/ (\E w \in {"id.me", "login.gov"} :
                In(w, blob))) THEN "digital_id" ELSE
        llm

\* Lines 133-145: " ".join(keys + values).
TextBlob(page1) ==
    Join([i \in 1..Len(page1) |-> Lower(page1[i][1])]
         \o SelectShort([i \in 1..Len(page1) |-> Lower(page1[i][2])]), " ")

SubtypeOfText(blob, reply) == SubtypeOfBlob(blob, SubtypeFromModel(blob, reply))

_guess_identity_subtype_from_ocr(page1, reply) == SubtypeOfText(TextBlob(page1), reply)

\* Lines 329-343 on the lowered text; llm is what lines 345-394 return.
NameOfBlob(blob_lower, llm) ==
        IF (\E w \in {"aadhaar", "aadhar", "adhar", "government of india", "uidai"} : In(w,
                blob_lower)) THEN "Aadhaar Card" ELSE
        IF (In("driver", blob_lower) /\ In("license", blob_lower)) THEN "Driver's License"
                ELSE
        IF (In("passport", blob_lower) /\ In("card", blob_lower)) THEN "Passport Card" ELSE
        IF In("passport", blob_lower) THEN "Passport" ELSE
        IF In("social security", blob_lower) THEN "Social Security Card" ELSE
        IF ((In("state", blob_lower) /\ In("id", blob_lower)) \/ In("identification",
                blob_lower)) THEN "State ID" ELSE
        llm

\* Lines 316-327: "\n".join("k: v").lower().
TextContent(page1) ==
    Lower(Join([i \in 1..Len(page1) |-> page1[i][1] \o ": " \o page1[i][2]], "\n"))

NameFromModel(reply) ==
    IF ~reply.nameOk THEN "Unknown Document"
    ELSE IF reply.name # "" THEN reply.name ELSE "Unknown Document"

_extract_actual_document_name_from_ocr(page1, reply) ==
    NameOfBlob(TextContent(page1), NameFromModel(reply))

(***************************************************************************)
(* Classification node.                                                    *)
(***************************************************************************)
document_aliases ==
    { <<"driver license", {"driver's license", "driving license", "drivers license", "dl"}>>,
      <<"driver's license", {"driver license", "driving license", "drivers license", "dl"}>>,
      <<"aadhaar card", {"aadhar card", "adhar card", "aadhaar", "aadhar", "adhar"}>>,
      <<"passport card", {"passport", "us passport card"}>>,
      <<"passport", {"us passport", "passport book"}>>,
      <<"state id", {"state identification", "state identification card", "id card"}>>,
      <<"social security card", {"ssn card", "social security", "ss card"}>> }

compatible_groups ==
    { {"driving_license", "mobile_drivers_license"},
      {"state_id", "real_id", "passport_card"},
      {"passport", "passport_card"},
      {"certificate_of_naturalization", "certificate_of_citizenship"},
      {"military_id", "veteran_id"},
      {"utility_bill", "lease_agreement", "bank_statement"},
      {"employment_authorization_document", "permanent_resident_card"},
      {"consular_id", "identity_document"} }

GenericSubtypes == {"other_identity", "identity_document"}

\* Lines 472-493: does the claimed name match the name read from the content?
is_valid_match(claimed_name_normalized, actual_name_normalized) ==
    \/ In(claimed_name_normalized, actual_name_normalized)
    \/ In(actual_name_normalized, claimed_name_normalized)
    \/ \E entry \in document_aliases :
          /\ claimed_name_normalized \in {entry[1]} \cup entry[2]
          /\ \E alias \in {entry[1]} \cup entry[2] : In(alias, actual_name_normalized)
    \/ In("licese", claimed_name_normalized) /\ In("license", actual_name_normalized)
    \/ In("licence", claimed_name_normalized) /\ In("license", actual_name_normalized)

\* Lines 525-533.
is_compatible(subtype_expected, subtype_detected) ==
    \/ subtype_expected = subtype_detected
    \/ \E group \in compatible_groups :
          subtype_expected \in group /\ subtype_detected \in group

\* Mutation of lines 536-538: only the expected type has to be specific.
subtype_mismatch_expectedSpecific(subtype_expected, subtype_detected) ==
    /\ subtype_expected \notin GenericSubtypes
    /\ ~is_compatible(subtype_expected, subtype_detected)

\* Lines 536-538: the condition under which name_mismatch is set.
subtype_mismatch(subtype_expected, subtype_detected) ==
    /\ subtype_expected \notin GenericSubtypes
    /\ subtype_detected \notin GenericSubtypes
    /\ ~is_compatible(subtype_expected, subtype_detected)

\* Mutation of line 550: the content check is left out.
Passed_withoutContentCheck(category_match, name_mismatch, metadata_db_name_mismatch, actual_document_mismatch) ==
    category_match /\ ~name_mismatch /\ ~metadata_db_name_mismatch

\* Line 550, from the four mismatch flags.
Passed(category_match, name_mismatch, metadata_db_name_mismatch, actual_document_mismatch) ==
    category_match /\ ~name_mismatch /\ ~metadata_db_name_mismatch
    /\ ~actual_document_mismatch

Classification(w0, reply) ==
    LET w == Enter(w0, "Document Classification")
        st == w.st
        doc_type == Lower(st.ocr.doc_type)
        category0 == Lower(st.ocr.doc_category)
        doc_category == IF st.ingestion.present /\ st.ingestion.agentIdentity THEN "identity"
                        ELSE IF category0 = "" /\ doc_type # "" THEN doc_type
                        ELSE category0
        category_match == doc_category = doc_type /\ doc_type # ""
        ingestion_name == IF st.ingestion.present THEN st.ingestion.name ELSE ""
        metadata_doc_name == IF st.ingestion.present THEN st.ingestion.metaName ELSE ""
        metadata_db_name_mismatch ==
            /\ metadata_doc_name # ""
            /\ ingestion_name # ""
            /\ Lower(metadata_doc_name) # Lower(ingestion_name)
        checkContent == doc_type = "identity" /\ ~metadata_db_name_mismatch
        actual_document_name ==
            IF checkContent THEN _extract_actual_document_name_from_ocr(st.ocr.page, reply)
            ELSE ""
        actual_document_mismatch ==
            /\ checkContent
            /\ ~is_valid_match(Lower(ingestion_name), Lower(actual_document_name))
            /\ actual_document_name # "Unknown Document"
        checkSubtype == doc_type = "identity" /\ ingestion_name # ""
                        /\ ~metadata_db_name_mismatch
        subtype_expected ==
            IF checkSubtype THEN _map_display_name_to_identity_subtype(ingestion_name) ELSE ""
        subtype_detected ==
            IF checkSubtype THEN _guess_identity_subtype_from_ocr(st.ocr.page, reply) ELSE ""
        name_mismatch ==
            checkSubtype /\ subtype_mismatch(subtype_expected, subtype_detected)
        passed == Passed(category_match, name_mismatch, metadata_db_name_mismatch,
                         actual_document_mismatch)
        \* the reason assigned last: lines 444, 497, 540
        detailed_reason == IF name_mismatch THEN "Document type mismatch"
                           ELSE IF actual_document_mismatch THEN "Document content mismatch"
                           ELSE IF metadata_db_name_mismatch THEN "Document name mismatch"
                           ELSE ""
        message == IF passed THEN "pass"
                   ELSE IF actual_document_mismatch THEN detailed_reason
                   ELSE IF metadata_db_name_mismatch THEN detailed_reason
                   ELSE IF ~category_match THEN "Document category mismatch"
                   ELSE IF detailed_reason # "" THEN detailed_reason
                   ELSE "Document name and content mismatch. Please ensure the uploaded document"
    IN  IF ~st.ocr.present THEN Raise(w, "OCRStateMissing")
        ELSE [w EXCEPT !.st.classification =
                 [present |-> TRUE, expected_category |-> doc_category,
                  detected_doc_type |-> doc_type, passed |-> passed, message |-> message,
                  subtype_expected |-> subtype_expected,
                  subtype_detected |-> subtype_detected,
                  category_match |-> category_match, name_mismatch |-> name_mismatch,
                  metadata_db_name_match |-> ~metadata_db_name_mismatch,
                  actual_document_name |-> actual_document_name,
                  actual_document_match |-> ~actual_document_mismatch]]

(***************************************************************************)
(* Extract node.  x tells what the environment does: whether the field     *)
(* extraction raises, whether the S3 client can be created, whether the    *)
(* upload of the result succeeds, whether the database answers.            *)
(***************************************************************************)
ExtractRuns == [extractRaises : BOOLEAN, clientOk : BOOLEAN, uploadOk : BOOLEAN,
                dbOk : BOOLEAN]

Extract(w0, x) ==
    LET w == Enter(w0, "Document Data Extraction")
        st == w.st
        ingestion == st.ingestion
        d == ingestion.doc
        message == st.classification.message
        \* lines 576-629: the object key is built before put_object is called
        key == x.clientOk
        uploaded == x.clientOk /\ x.uploadOk
        \* lines 631-690
        doc_verification_result_json == IF st.classification.passed THEN "pass" ELSE "fail"
        \* lines 692-718
        document_status == IF st.classification.passed THEN "pass" ELSE "fail"
        cross_validation == FALSE
        updates == [file_s3_location |-> IF ingestion.present THEN Some(TRUE) ELSE None,
                    document_status |-> Some(document_status),
                    uploadedat |-> None,
                    metadata_s3_path |-> IF ingestion.present THEN Some(TRUE) ELSE None,
                    verified_result_s3_path |-> IF key THEN Some(TRUE) ELSE None,
                    cross_validation |-> Some(cross_validation),
                    doc_verification_result |-> Some(doc_verification_result_json)]
        checklistId == ingestion.present /\ hasattr(ingestion, "checklistId")
    IN  IF ~st.classification.present \/ ~st.ocr.present
        THEN Raise(w, "OCROrClassificationMissing")
        ELSE [w EXCEPT
                !.st.extraction = [present |-> TRUE, passed |-> st.classification.passed,
                                   message |-> message, error |-> x.extractRaises],
                !.s3 = IF uploaded THEN @ \cup {<<"result", d>>} ELSE @,
                !.emitted = IF d \in DOMAIN @
                            THEN [@ EXCEPT ![d] = doc_verification_result_json] ELSE @,
                !.rows = IF d \in DOMAIN @
                         THEN update_tblaigents_by_keys(@, d, TRUE, checklistId, updates,
                                                        ingestion.name, x.dbOk)
                         ELSE @]

(***************************************************************************)
(* ValidationCheck node.  v: whether validate_document raises, the verdict *)
(* of the validator (passed: no warning and no error), the database.       *)
(***************************************************************************)
ValidationRuns == [raises : BOOLEAN, passed : BOOLEAN, dbOk : BOOLEAN]

ValidationCheck(w0, v) ==
    LET w == Enter(w0, "Validation Check")
        st == w.st
        ingestion == st.ingestion
        d == ingestion.doc
        document_status == IF v.passed THEN "pass" ELSE "human verification needed"
        doc_verification_result == IF v.passed THEN "pass" ELSE "human_verification_needed"
        updates == [document_status |-> Some(document_status),
                    doc_verification_result |-> Some(doc_verification_result),
                    cross_validation |-> Some(~v.passed)]
        noted == IF ~hasattr(st, "validation")
                 THEN [w EXCEPT !.st.extraction.message = "Validation completed"]
                 ELSE w
        \* lines 669-685: reading state.ingestion.checklistId raises AttributeError
        \* when the model has no such field; the except clause discards it.
        written == IF ingestion.present /\ hasattr(ingestion, "checklistId")
                   THEN update_tblaigents_by_keys(w.rows, d, TRUE, TRUE, updates,
                                                  ingestion.name, v.dbOk)
                   ELSE w.rows
    IN  IF ~st.extraction.present THEN Raise(w, "ExtractionStateMissing")
        ELSE IF v.raises THEN Raise(w, "ValidationFailed")
        ELSE [noted EXCEPT !.rows = written]

(***************************************************************************)
(* sqs_worker.py: cleanup_failed_document.  Deletes the uploaded document  *)
(* and its sidecar metadata; c tells which S3 calls succeed.               *)
(***************************************************************************)
CleanupRuns == [clientOk : BOOLEAN, deleteDocOk : BOOLEAN, deleteMetaOk : BOOLEAN]

cleanup_failed_document(w, c) ==
    LET ingestion == w.st.ingestion
        d == ingestion.doc
        gone == (IF c.deleteDocOk THEN {<<"doc", d>>} ELSE {})
                \cup (IF c.deleteMetaOk THEN {<<"meta", d>>} ELSE {})
    IN  IF c.clientOk /\ ingestion.present /\ ingestion.hasKey
        THEN [w EXCEPT !.s3 = @ \ gone]
        ELSE w

(***************************************************************************)
(* The cross-validation watcher (cross_validation/main_watcher.py) over    *)
(* tblaiagents.  Every row has its own checklistId, so every row is a      *)
(* group of fetch_all_statuses_grouped.                                    *)
(***************************************************************************)
\* Python values where their type decides what the code does.
Str(s) == <<"str", s>>
Bool(b) == <<"bool", b>>
PyNone == <<"none">>
Truthy(v) == \/ v[1] = "bool" /\ v[2]
             \/ v[1] = "str" /\ v[2] # ""

\* The key of the row of document d: (FPCID, checklistId, document_name, LMRId).
StatusKey(d) == <<"3363", d, "Driving license", "45">>

\* fetch_all_statuses_grouped: per group, whether all of its rows are flagged.
fetch_all_statuses_grouped(table) ==
    { [pair |-> StatusKey(d), doc |-> d, is_ready |-> table[d].cross_validation] :
        d \in {x \in Docs : table[x].exists} }

\* The rows of the case that carry a verification result.
fetch_docs_for_pair(table, FPCID, LMRId) ==
    {x \in Docs : table[x].exists /\ table[x].verified_result_s3_path}

\* update_is_verified(conn, FPCID, checklistId, document_name, flag): the guard, then
\* int(flag), then the UPDATE.
update_is_verified(FPCID, checklistId, document_name, flag) ==
    IF ~Truthy(FPCID) \/ ~Truthy(checklistId) \/ ~Truthy(document_name)
    THEN [err |-> "none", updated |-> FALSE]
    ELSE IF flag[1] = "none" THEN [err |-> "TypeError", updated |-> FALSE]
    ELSE IF flag[1] = "str" THEN [err |-> "ValueError", updated |-> FALSE]
    ELSE [err |-> "none", updated |-> TRUE]

\* What the services a reconciliation calls do: the database, the validator, S3.
WatcherRuns == [fetchRaises : BOOLEAN, validateRaises : BOOLEAN, passed : BOOLEAN,
                s3 : BOOLEAN]

\* The services during a poll that calls none of them.
QuietRun == [fetchRaises |-> FALSE, validateRaises |-> FALSE, passed |-> FALSE, s3 |-> FALSE]

\* handle_ready_pair(pair, ..., processed_docs): the processed set it returns, and
\* whether it validated, wrote a report, updated the table; err: the exception it raised.
handle_ready_pair(pair, table, processed_docs, run) ==
    LET back == [err |-> "none", paths |-> processed_docs, validated |-> FALSE,
                 reported |-> FALSE, updated |-> FALSE]
    IN  IF Len(pair) # 2 THEN [back EXCEPT !.err = "ValueError"]      \* line 58
        ELSE IF run.fetchRaises THEN back
        ELSE \* lines 72-82
             IF fetch_docs_for_pair(table, pair[1], pair[2]) = {} THEN back
        ELSE IF {<<"result", x>> : x \in fetch_docs_for_pair(table, pair[1], pair[2])}
                    \subseteq processed_docs THEN back
        ELSE IF run.validateRaises THEN [back EXCEPT !.validated = TRUE]
        ELSE \* line 190: update_is_verified(conn, FPCID, LMRId, verification_passed, s3_url)
             LET u == update_is_verified(Str(pair[1]), Str(pair[2]), Bool(run.passed),
                                         IF run.s3 THEN Str("s3://report") ELSE PyNone)
             IN  [err |-> u.err,
                  paths |-> IF u.err # "none" THEN processed_docs
                            ELSE {<<"result", x>> :
                                     x \in fetch_docs_for_pair(table, pair[1], pair[2])}
                                 \cup processed_docs,
                  validated |-> TRUE, reported |-> run.s3, updated |-> u.updated]

\* main before its loop: nothing observed, nothing processed.
WatcherInit ==
    [status |-> "polling",
     processed_docs |-> [d \in Docs |-> [known |-> FALSE, paths |-> {}]],
     last_status |-> [d \in Docs |-> "unset"],
     ticks |-> 0, validations |-> 0, reports |-> 0, updates |-> 0]

\* The orders in which statuses.items() can yield the groups.
Orders(S) == {o \in [1..Cardinality(S) -> S] : \A i, j \in DOMAIN o : o[i] = o[j] => i = j}

\* Lines 267-287, from the i-th group of order on; acc.err: the exception that left the loop.
RECURSIVE ForPairs(_, _, _, _)
ForPairs(order, i, acc, run) ==
    IF i > Len(order) \/ acc.err # "none" THEN acc
    ELSE IF ~rows[order[i]].cross_validation
    THEN ForPairs(order, i + 1, [acc EXCEPT !.w.last_status[order[i]] = "not ready"], run)
    ELSE LET d == order[i]
             known == [acc.w EXCEPT !.processed_docs[d].known = TRUE]
             h == handle_ready_pair(StatusKey(d), rows, known.processed_docs[d].paths, run)
         IN  IF h.err # "none" THEN [w |-> known, err |-> h.err]
             ELSE ForPairs(order, i + 1,
                      [w |-> [known EXCEPT !.processed_docs[d].paths = h.paths,
                                           !.last_status[d] = "ready",
                                           !.validations = IF h.validated THEN Sat(@) ELSE @,
                                           !.reports = IF h.reported THEN Sat(@) ELSE @,
                                           !.updates = IF h.updated THEN Sat(@) ELSE @],
                       err |-> "none"], run)

(***************************************************************************)
(* The environment: a document is uploaded (document and sidecar metadata  *)
(* in S3, a row in tblaiagents, a message on the queue).  Ingestion takes  *)
(* its cut-off time when it is called, so a message sent while no          *)
(* Ingestion call is polling is backlog for every later call.              *)
(***************************************************************************)
Init ==
    /\ watcher = WatcherInit
    /\ fate = [d \in Docs |-> "new"]
    /\ cur = 0
    /\ pc = "idle"
    /\ state = PipelineState
    /\ s3 = {}
    /\ rows = [d \in Docs |-> NoRow]
    /\ emitted = [d \in Docs |-> "none"]
    /\ stages = <<>>
    /\ lastError = "none"
    /\ retries = 0
    /\ alive = TRUE
    /\ taken = 0
    /\ caught = 0
    /\ given = NoReply

Upload(d) ==
    /\ fate[d] = "new"
    /\ fate' = [fate EXCEPT ![d] = IF pc = "idle" THEN "fresh" ELSE "backlog"]
    /\ s3' = s3 \cup {<<"doc", d>>, <<"meta", d>>}
    /\ rows' = [rows EXCEPT ![d] = NewRow]
    /\ UNCHANGED <<watcher, cur, pc, state, emitted, stages, lastError, retries, alive, taken,
                   caught, given>>

\* startup_ms of the next Ingestion call: what is still queued is older than it.
Aged(queue) == [d \in DOMAIN queue |-> IF queue[d] = "fresh" THEN "backlog" ELSE queue[d]]

\* One turn of Ingestion's receive loop on a message older than the cut-off:
\* the message is deleted and the loop goes on polling.
SkipOld(d) ==
    /\ alive
    /\ pc = "idle"
    /\ fate[d] = "backlog"
    /\ fate' = [fate EXCEPT ![d] = "skipped"]
    /\ UNCHANGED <<watcher, cur, pc, state, s3, rows, emitted, stages, lastError, retries, alive,
                   taken, caught, given>>

\* What can keep Ingestion from handing a received message over: the EFS file is
\* missing (lines 305-309), the upload from EFS fails (310-314), IngestionState
\* refuses a field (lines 474-493, after the delete of lines 469-470), or the body is
\* not JSON (line 264). The handlers of lines 497-504 send the loop round again.
HandoffFailures == {"EFS file not found", "EFS upload failed", "state refused",
                    "body unreadable"}

\* Whether the turn of the receive loop that fails with f deletes the message.
DeletesMessage(f) == f # "body unreadable"

\* One turn of Ingestion's receive loop on a message whose hand-off fails: the loop
\* goes on polling; a message that was not deleted is received again.
FailedHandoff(d) ==
    /\ alive
    /\ pc = "idle"
    /\ fate[d] = "fresh"
    /\ \E f \in HandoffFailures :
         fate' = [fate EXCEPT ![d] = IF DeletesMessage(f) THEN "dropped" ELSE @]
    /\ UNCHANGED <<watcher, cur, pc, state, s3, rows, emitted, stages, lastError, retries,
                   alive, taken, caught, given>>

\* Outcomes of run_pipeline: all of them, and the ones the drivers are run on.
AllOcrRuns == {[raises |-> TRUE, doc_type |-> "", page |-> <<>>]}
              \cup [raises : {FALSE}, doc_type : Categories, page : Pages]
OcrRuns ==
    { o \in AllOcrRuns :
        \/ o.raises
        \/ /\ o.doc_type # ""
           /\ o.page[1][2] \in {"Driver License", "Identification Card"} }

\* Replies of the chat model the drivers are run on.
Replies == { r \in LLMReplies : r.subtype \in {"", "passport"} /\ r.name = "" /\ ~r.nameOk }

(***************************************************************************)
(* The SQS worker (sqs_worker.py).                                         *)
(***************************************************************************)
\* Mutation of main: any exception ends the loop.
main_stopsOnError(err) == err = "none"

\* main: does the loop go on after process_one_document ended with err?
main(err) == err # "KeyboardInterrupt"

\* The end of one turn of main's loop; w is the world process_one_document left.
WorkerTurn(w, d) ==
    /\ state' = w.st
    /\ s3' = w.s3
    /\ rows' = w.rows
    /\ emitted' = w.emitted
    /\ stages' = w.log
    /\ lastError' = w.err
    /\ fate' = Aged([w.fate EXCEPT ![d] = IF w.fate[d] # "running" THEN @
                                          ELSE IF w.err = "none" THEN "finished"
                                          ELSE "error"])
    /\ taken' = IF w.fate[d] = "running" THEN Sat(taken) ELSE taken
    /\ caught' = IF w.err # "none" THEN Sat(caught) ELSE caught
    /\ alive' = main(w.err)
    /\ UNCHANGED <<watcher, cur, pc, retries, given>>

\* process_one_document on message d, followed by the rest of the loop turn.
process_one_document(d) ==
    /\ alive
    /\ pc = "idle"
    /\ fate[d] = "fresh"
    /\ \E m \in Messages, clientsOk \in BOOLEAN :
       \E ingested \in {Ingestion(World(PipelineState, fate, s3, rows, emitted), d, m,
                                  clientsOk)} :
         IF ingested.err # "none" THEN WorkerTurn(ingested, d)
         ELSE \E o \in OcrRuns : \E read \in {OCR(ingested, o)} :
           IF read.err # "none" THEN WorkerTurn(read, d)
           ELSE \E reply \in Replies : \E classified \in {Classification(read, reply)} :
             IF classified.err # "none" THEN WorkerTurn(classified, d)
             ELSE IF ~classified.st.classification.present
                     \/ ~classified.st.classification.passed
             THEN \E c \in CleanupRuns :
                    WorkerTurn(cleanup_failed_document(classified, c), d)
             ELSE \E x \in ExtractRuns : \E extracted \in {Extract(classified, x)} :
               IF extracted.err # "none" THEN WorkerTurn(extracted, d)
               ELSE \E v \in ValidationRuns :
                      WorkerTurn(ValidationCheck(extracted, v), d)

\* Ctrl+C: KeyboardInterrupt reaches main's loop.
Interrupt ==
    /\ alive
    /\ pc = "idle"
    /\ alive' = main("KeyboardInterrupt")
    /\ lastError' = "KeyboardInterrupt"
    /\ UNCHANGED <<watcher, fate, cur, pc, state, s3, rows, emitted, stages, retries, taken, caught,
                   given>>

Next ==
    \/ \E d \in Docs : Upload(d)
    \/ \E d \in Docs : SkipOld(d)
    \/ \E d \in Docs : FailedHandoff(d)
    \/ \E d \in Docs : process_one_document(d)
    \/ Interrupt

Spec == Init /\ [][Next]_vars

(***************************************************************************)
(* The workflow graph (Nodes/pipeline.py): Ingestion -> Tamper Check ->    *)
(* OCR -> Document Classification, then the conditional edge, whose        *)
(* targets are "Document Data Extraction" and "OCR".  One action per node  *)
(* execution; an exception in a node ends the run.                         *)
(***************************************************************************)
\* The routing function of the conditional edge.
Classified_or_not(st) ==
    IF st.classification.present /\ st.classification.passed
    THEN "Document Data Extraction" ELSE "OCR"

\* The world the next node of the run in progress acts on.
Current == [World(state, fate, s3, rows, emitted) EXCEPT !.log = stages]

\* The run moves on to node next ("END": the run is over) from the world w that the
\* node executed for document d left.
Advance(w, d, next) ==
    LET over == w.err # "none" \/ next = "END"
        outcome == IF w.fate[d] # "running" THEN w.fate[d]
                   ELSE IF w.err # "none" THEN "error" ELSE "finished"
    IN  /\ state' = w.st
        /\ s3' = w.s3
        /\ rows' = w.rows
        /\ emitted' = w.emitted
        /\ stages' = w.log
        /\ lastError' = w.err
        /\ pc' = IF over THEN "idle" ELSE next
        /\ cur' = IF over THEN 0 ELSE d
        /\ fate' = IF over THEN Aged([w.fate EXCEPT ![d] = outcome]) ELSE w.fate
        /\ UNCHANGED <<watcher, alive, taken, caught, given>>

GraphIngestion(d) ==
    /\ pc = "idle"
    /\ fate[d] = "fresh"
    /\ retries' = 0
    /\ \E m \in Messages, clientsOk \in BOOLEAN :
         Advance(Ingestion(World(PipelineState, fate, s3, rows, emitted), d, m, clientsOk),
                 d, "Tamper Check")

GraphTamperCheck ==
    /\ pc = "Tamper Check"
    /\ UNCHANGED retries
    /\ \E downloadOk \in BOOLEAN, f \in Files, dbOk \in BOOLEAN :
         Advance(TamperCheck(Current, downloadOk, f, dbOk), cur, "OCR")

GraphOCR ==
    /\ pc = "OCR"
    /\ UNCHANGED retries
    /\ \E o \in OcrRuns : Advance(OCR(Current, o), cur, "Document Classification")

GraphClassification ==
    /\ pc = "Document Classification"
    /\ \E reply \in Replies : \E w \in {Classification(Current, reply)} :
         /\ Advance(w, cur, Classified_or_not(w.st))
         /\ retries' = IF w.err = "none" /\ Classified_or_not(w.st) = "OCR"
                       THEN Sat(retries) ELSE retries

GraphExtract ==
    /\ pc = "Document Data Extraction"
    /\ UNCHANGED retries
    /\ \E x \in ExtractRuns : Advance(Extract(Current, x), cur, "END")

NextGraph ==
    \/ \E d \in Docs : Upload(d)
    \/ \E d \in Docs : SkipOld(d)
    \/ \E d \in Docs : FailedHandoff(d)
    \/ \E d \in Docs : GraphIngestion(d)
    \/ GraphTamperCheck
    \/ GraphOCR
    \/ GraphClassification
    \/ GraphExtract

SpecGraph == Init /\ [][NextGraph]_vars

\* The nodes create_pipeline adds to the graph.
GraphNodes == {"Ingestion", "Tamper Check", "OCR", "Document Classification",
               "Document Data Extraction"}

\* A step of the graph executor: a node is executed and the run moves to another
\* node or ends.  Uploads and the ageing of messages leave pc alone.
RunStep == pc # "idle" /\ pc' \in (GraphNodes \cup {"idle"}) \ {pc}

\* A run in progress is not suspended forever: the graph executor runs the next node.
FairSpecGraph == SpecGraph /\ WF_pc(RunStep)

(***************************************************************************)
(* Classification on its own: every message, OCR result and reply of the   *)
(* chat model, on a state that Ingestion, TamperCheck and OCR populated.   *)
(***************************************************************************)
CleanFile == [statOk |-> TRUE, analysisRaises |-> FALSE, pdfIssues |-> FALSE,
              datesReversed |-> FALSE, baselineDiffers |-> FALSE]

Populated(m, o) ==
    OCR(TamperCheck(Ingestion(World(PipelineState, [d \in Docs |-> "fresh"], {},
                                    [d \in Docs |-> NewRow], [d \in Docs |-> "none"]),
                              1, m, TRUE),
                    TRUE, CleanFile, TRUE),
        o).st

InitClassify ==
    /\ watcher = WatcherInit
    /\ \E m \in AllMessages, o \in AllOcrRuns :
         /\ m.hasKey
         /\ ~o.raises
         /\ state = Populated(m, o)
    /\ given \in LLMReplies
    /\ pc = "Document Classification"
    /\ cur = 1
    /\ fate = [d \in Docs |-> IF d = 1 THEN "running" ELSE "new"]
    /\ s3 = {<<"doc", 1>>, <<"meta", 1>>}
    /\ rows = [d \in Docs |-> IF d = 1 THEN NewRow ELSE NoRow]
    /\ emitted = [d \in Docs |-> "none"]
    /\ stages = <<"Ingestion", "Tamper Check", "OCR">>
    /\ lastError = "none"
    /\ retries = 0
    /\ alive = TRUE
    /\ taken = 0
    /\ caught = 0

Classify ==
    /\ pc = "Document Classification"
    /\ \E w \in {Classification(Current, given)} :
         /\ state' = w.st
         /\ stages' = w.log
         /\ lastError' = w.err
    /\ pc' = "classified"
    /\ UNCHANGED <<watcher, fate, cur, s3, rows, emitted, retries, alive, taken, caught, given>>

SpecClassify == InitClassify /\ [][Classify]_vars

\* validation_check_node.py: the table of the rule functions, by document type.
VALIDATION_FUNCTIONS ==
    [driving_license |-> "validate_driving_license",
     mobile_drivers_license |-> "validate_driving_license",
     state_id |-> "validate_state_id",
     real_id |-> "validate_state_id",
     passport |-> "validate_passport",
     passport_card |-> "validate_passport",
     social_security_card |-> "validate_social_security_card",
     birth_certificate |-> "validate_birth_certificate",
     permanent_resident_card |-> "validate_permanent_resident_card",
     employment_authorization_document |-> "validate_employment_authorization",
     military_id |-> "validate_military_id",
     veteran_id |-> "validate_military_id"]

\* validate_document: the rule function the fields are handed to.
validate_document(doc_type) ==
    LET doc_type_lower == Lower(doc_type)
    IN  IF doc_type_lower \in DOMAIN VALIDATION_FUNCTIONS
        THEN VALIDATION_FUNCTIONS[doc_type_lower]
        ELSE "validate_generic_identity"

\* Lines 604-615 of ValidationCheck on the state that Classification left: given
\* becomes the rule function chosen.
RouteValidation ==
    /\ pc = "classified"
    /\ given' = validate_document(IF state.classification.present
                                  THEN state.classification.detected_doc_type ELSE "")
    /\ pc' = "validated"
    /\ UNCHANGED <<watcher, fate, cur, state, s3, rows, emitted, stages, lastError,
                   retries, alive, taken, caught>>

NextRoute ==
    \/ Classify
    \/ RouteValidation

SpecRoute == InitClassify /\ [][NextRoute]_vars

\* One turn of main's loop: lines 258-291.  An exception other than KeyboardInterrupt
\* leaves main.
Poll ==
    /\ watcher.status = "polling"
    /\ \E dbOk \in BOOLEAN :
       \E statuses \in {IF dbOk THEN fetch_all_statuses_grouped(rows) ELSE {}} :
       \E order \in Orders({s.doc : s \in statuses}) :
       \E run \in IF \E s \in statuses : s.is_ready THEN WatcherRuns ELSE {QuietRun} :
       \E turn \in {ForPairs(order, 1, [w |-> watcher, err |-> "none"], run)} :
         watcher' = IF turn.err # "none" THEN [turn.w EXCEPT !.status = "crashed"]
                    ELSE [turn.w EXCEPT !.ticks = Sat(@)]
    /\ UNCHANGED <<fate, cur, pc, state, s3, rows, emitted, stages, lastError, retries,
                   alive, taken, caught, given>>

\* Ctrl+C in the watcher: lines 293-295.
WatcherInterrupt ==
    /\ watcher.status = "polling"
    /\ watcher' = [watcher EXCEPT !.status = "stopped"]
    /\ UNCHANGED <<fate, cur, pc, state, s3, rows, emitted, stages, lastError, retries,
                   alive, taken, caught, given>>

\* S3_Sqs/fe_push.py, update_cross_validation_status: a client of the table sets the flag.
update_cross_validation_status(d, status) ==
    /\ rows[d].exists
    /\ rows' = [rows EXCEPT ![d].cross_validation = status]
    /\ UNCHANGED <<fate, cur, pc, state, s3, emitted, stages, lastError, retries,
                   alive, taken, caught, given, watcher>>

NextWatcher ==
    \/ \E d \in Docs : Upload(d)
    \/ \E d \in Docs, status \in BOOLEAN : update_cross_validation_status(d, status)
    \/ Poll
    \/ WatcherInterrupt

SpecWatcher == Init /\ [][NextWatcher]_vars

(***************************************************************************)
(* update_tblaigents_by_keys on its own: every table of the rows below and *)
(* every call.  The rows carry Is_varified, a column of tblaiagents that   *)
(* the function's allow-list does not hold.                                *)
(***************************************************************************)
DbRows ==
    [exists : BOOLEAN, document_status : {"NULL", "fail"}, cross_validation : {FALSE},
     doc_verification_result : {"NULL"}, verified_result_s3_path : {FALSE},
     Is_varified : {FALSE}]

Dict(cols, vals) == [c \in cols |-> vals[c]]

\* The updates dictionaries of the callers, and ones that name Is_varified.
DbUpdates ==
    { Dict({}, <<>>),
      [document_status |-> Some("pass")],
      [document_status |-> None],
      [document_status |-> Some("pass"), doc_verification_result |-> None],
      [cross_validation |-> Some(TRUE), verified_result_s3_path |-> Some(TRUE)],
      [document_status |-> Some("human_verification_needed"),
       doc_verification_result |-> Some("report")],
      [Is_varified |-> Some(TRUE)],
      [document_status |-> Some("pass"), Is_varified |-> Some(TRUE)] }

DbCalls ==
    [d : Docs, FPCID : BOOLEAN, checklistId : BOOLEAN,
     document_name : {"", "Driving license"}, updates : DbUpdates, dbOk : BOOLEAN]

InitDb ==
    /\ rows \in [Docs -> DbRows]
    /\ \E c \in DbCalls : given = [call |-> c, before |-> rows]
    /\ pc = "update"
    /\ watcher = WatcherInit
    /\ cur = 0
    /\ fate = [d \in Docs |-> "new"]
    /\ state = PipelineState
    /\ s3 = {}
    /\ emitted = [d \in Docs |-> "none"]
    /\ stages = <<>>
    /\ lastError = "none"
    /\ retries = 0
    /\ alive = TRUE
    /\ taken = 0
    /\ caught = 0

DbUpdate ==
    /\ pc = "update"
    /\ rows' = update_tblaigents_by_keys(rows, given.call.d, given.call.FPCID,
                                         given.call.checklistId, given.call.updates,
                                         given.call.document_name, given.call.dbOk)
    /\ pc' = "updated"
    /\ UNCHANGED <<watcher, fate, cur, state, s3, emitted, stages, lastError, retries,
                   alive, taken, caught, given>>

SpecDb == InitDb /\ [][DbUpdate]_vars

(***************************************************************************)
(* cross_validation/validation: EnhancedValidator and GPT4oValidator.      *)
(* A value is a string, "" standing for None or a missing key.  Two of the *)
(* seven reference fields and one additional field are modelled; with them *)
(* every quotient below is exact, so that int() truncates nothing.          *)
(***************************************************************************)
ValDocs == {"Driving license", "Passport"}
REFERENCE_FIELDS == {"borrowerName", "borrowerDOB"}
ADDITIONAL_FIELDS == {"city"}

\* str(v).strip().upper()
Upper(s) ==
    CASE s = "John" -> "JOHN"
      [] s = "John " -> "JOHN"
      [] s = "Jon" -> "JON"
      [] s = "Austin" -> "AUSTIN"
      [] s = "Dallas" -> "DALLAS"
      [] OTHER -> s

\* What the chat model answers when it is asked whether two values are the same:
\* "semantic" follows the prompt (case, format of dates), "literal" compares the text.
Same(a, b, oracle) ==
    CASE oracle = "unavailable" -> Upper(a) = Upper(b)
      [] oracle = "literal" -> a = b
      [] OTHER -> \/ Upper(a) = Upper(b)
                  \/ {a, b} = {"07/25/1980", "1980-07-25"}

\* GPT4oValidator.compare_values: the key "match" of its result.
compare_values(reference_value, document_value, oracle) ==
    IF reference_value = "" THEN TRUE
    ELSE IF document_value = "" THEN FALSE
    ELSE Same(reference_value, document_value, oracle)

\* GPT4oValidator.find_consensus on document_values, a function of document names.
find_consensus(document_values, oracle) ==
    LET valid == {d \in DOMAIN document_values : document_values[d] # ""}
        votes(d) == Cardinality({e \in valid :
                                   Same(document_values[e], document_values[d], oracle)})
        most == CHOOSE n \in {votes(d) : d \in valid} :
                    \A m \in {votes(d) : d \in valid} : m <= n
    IN  IF valid = {}
        THEN [agreement_count |-> 0,
              total_documents |-> Cardinality(DOMAIN document_values), all_match |-> FALSE]
        ELSE IF Cardinality(valid) = 1
        THEN [agreement_count |-> 1, total_documents |-> 1, all_match |-> TRUE]
        ELSE [agreement_count |-> most, total_documents |-> Cardinality(valid),
              all_match |-> most = Cardinality(valid)]

\* The dictionary {document_name: value} of the documents that have a value for field.
DocValues(extracted_docs, field) ==
    [d \in {e \in ValDocs : extracted_docs[e][field] # ""} |-> extracted_docs[d][field]]

\* agreement_pct of one field: lines 281 and 342.
AgreementPct(extracted_docs, field, oracle) ==
    LET c == find_consensus(DocValues(extracted_docs, field), oracle)
    IN  IF c.total_documents > 0 THEN (c.agreement_count * 100) \div c.total_documents
        ELSE 0

RECURSIVE TotalAgreement(_, _, _)
TotalAgreement(extracted_docs, fields, oracle) ==
    IF fields = {} THEN 0
    ELSE LET f == CHOOSE g \in fields : TRUE
         IN  AgreementPct(extracted_docs, f, oracle)
                 + TotalAgreement(extracted_docs, fields \ {f}, oracle)

\* The fields of the set that some document has a value for.
Found(extracted_docs, fields) ==
    {f \in fields : \E d \in ValDocs : extracted_docs[d][f] # ""}

\* _validate_additional_fields: the statuses it reports and phase2_contribution.
_validate_additional_fields(extracted_docs, oracle) ==
    LET additional_fields == Found(extracted_docs, ADDITIONAL_FIELDS)
    IN  IF additional_fields = {} THEN [fields |-> <<>>, contribution |-> 30]
        ELSE [fields |->
                 [f \in additional_fields |->
                     IF find_consensus(DocValues(extracted_docs, f), oracle).all_match
                     THEN "MATCH" ELSE "PARTIAL"],
              contribution |->
                 (TotalAgreement(extracted_docs, additional_fields, oracle) * 30)
                     \div (Cardinality(additional_fields) * 100)]

\* Mutation of lines 182-196: a document without a value counts as a disagreement.
ReferenceFieldStatus_absentDisagrees(extracted_docs, field, ref_value, oracle) ==
    IF \A d \in ValDocs : compare_values(ref_value, extracted_docs[d][field], oracle)
    THEN "MATCH" ELSE "PARTIAL"

\* Lines 175-207: the status of one reference field.  doc_values holds an entry, a
\* value or "-", for every document; every entry of issues is a non-empty string.
ReferenceFieldStatus(extracted_docs, field, ref_value, oracle) ==
    LET all_match == \A d \in ValDocs :
                        extracted_docs[d][field] # "" =>
                            compare_values(ref_value, extracted_docs[d][field], oracle)
    IN  IF all_match /\ ValDocs # {} THEN "MATCH"
        ELSE IF ValDocs = {} THEN "MATCH"
        ELSE "PARTIAL"

\* The outcome of a validation that raised.
NoReport(exception) ==
    [raised |-> exception, score |-> 0, status |-> "", action |-> "", confidence |-> "",
     fields |-> Dict({}, <<>>)]

\* Mutation of lines 386-387: a score of 85 does not pass.
_generate_report_above85(score) ==
    [status |-> IF score > 85 THEN "PASS" ELSE "FAIL",
     action |-> IF score >= 85 THEN "APPROVE" ELSE IF score >= 70 THEN "REVIEW" ELSE "REJECT",
     confidence |-> IF score >= 95 THEN "HIGH"
                    ELSE IF score >= 85 THEN "MEDIUM-HIGH"
                    ELSE IF score >= 70 THEN "MEDIUM"
                    ELSE "LOW"]

\* _generate_report: status, action and confidence from the score.
_generate_report(score) ==
    [status |-> IF score >= 85 THEN "PASS" ELSE "FAIL",
     action |-> IF score >= 85 THEN "APPROVE" ELSE IF score >= 70 THEN "REVIEW" ELSE "REJECT",
     confidence |-> IF score >= 95 THEN "HIGH"
                    ELSE IF score >= 85 THEN "MEDIUM-HIGH"
                    ELSE IF score >= 70 THEN "MEDIUM"
                    ELSE "LOW"]

\* The field results and the score, made into the report.
Report(fields, score) ==
    LET r == _generate_report(score)
    IN  [raised |-> "none", score |-> score, status |-> r.status, action |-> r.action,
         confidence |-> r.confidence, fields |-> fields]

\* _validate_with_reference.  Line 227 reads phase1_percentage, which is bound only
\* when phase1_total > 0.
_validate_with_reference(extracted_docs, borrower_data, oracle) ==
    LET populated == {f \in REFERENCE_FIELDS : borrower_data[f] # ""}
        phase1 == [f \in populated |->
                      ReferenceFieldStatus(extracted_docs, f, borrower_data[f], oracle)]
        phase1_total == Cardinality(populated)
        phase1_matched == Cardinality({f \in populated : phase1[f] = "MATCH"})
        phase2 == _validate_additional_fields(extracted_docs, oracle)
        field_results == [f \in populated \cup DOMAIN phase2.fields |->
                             IF f \in populated THEN phase1[f] ELSE phase2.fields[f]]
    IN  IF phase1_total = 0 THEN NoReport("UnboundLocalError")
        ELSE Report(field_results,
                    (phase1_matched * 70) \div phase1_total + phase2.contribution)

\* _validate_cross_document.
_validate_cross_document(extracted_docs, oracle) ==
    LET all_fields == Found(extracted_docs, REFERENCE_FIELDS \cup ADDITIONAL_FIELDS)
        pct(f) == AgreementPct(extracted_docs, f, oracle)
        field_results ==
            [f \in all_fields |->
                IF find_consensus(DocValues(extracted_docs, f), oracle).all_match
                THEN "MATCH"
                ELSE IF pct(f) >= 70 THEN "PARTIAL" ELSE "MISMATCH"]
    IN  Report(field_results,
               IF all_fields = {} THEN 0
               ELSE TotalAgreement(extracted_docs, all_fields, oracle)
                        \div Cardinality(all_fields))

\* EnhancedValidator() and validate, as lines 140-142 of main_watcher.py call them:
\* the constructor raises ValueError without OPENAI_API_KEY.
validate(extracted_docs, borrower_data, oracle) ==
    IF oracle = "no key" THEN NoReport("ValueError")
    ELSE IF borrower_data.present
    THEN _validate_with_reference(extracted_docs, borrower_data, oracle)
    ELSE _validate_cross_document(extracted_docs, oracle)

(***************************************************************************)
(* validate on its own: every result of _extract_all_fields for two        *)
(* documents (all values empty is what the extraction's except clause      *)
(* returns), every borrower record, every behaviour of the chat model.     *)
(***************************************************************************)
ExtractedDocs ==
    [ValDocs -> [borrowerName : {"", "John", "JOHN", "John ", "Jon"},
                 borrowerDOB : {"", "07/25/1980", "1980-07-25"},
                 city : {"", "Austin", "Dallas"}]]

Borrowers ==
    [present : {TRUE}, borrowerName : {"", "John"}, borrowerDOB : {"", "07/25/1980"}]
        \cup {[present |-> FALSE, borrowerName |-> "", borrowerDOB |-> ""]}

Oracles == {"no key", "unavailable", "semantic", "literal"}

InitValidate ==
    /\ given \in [extracted_docs : ExtractedDocs, borrower_data : Borrowers, oracle : Oracles]
    /\ state = NoReport("none")
    /\ pc = "validate"
    /\ watcher = WatcherInit
    /\ cur = 0
    /\ fate = [d \in Docs |-> "new"]
    /\ rows = [d \in Docs |-> NoRow]
    /\ s3 = {}
    /\ emitted = [d \in Docs |-> "none"]
    /\ stages = <<>>
    /\ lastError = "none"
    /\ retries = 0
    /\ alive = TRUE
    /\ taken = 0
    /\ caught = 0

Validate ==
    /\ pc = "validate"
    /\ state' = validate(given.extracted_docs, given.borrower_data, given.oracle)
    /\ pc' = "validated"
    /\ UNCHANGED <<watcher, fate, cur, s3, rows, emitted, stages, lastError, retries,
                   alive, taken, caught, given>>

SpecValidate == InitValidate /\ [][Validate]_vars

\* _generate_report on its own: every score from 0 to 100.
InitReport ==
    /\ given \in 0..100
    /\ state = NoReport("none")
    /\ pc = "report"
    /\ watcher = WatcherInit
    /\ cur = 0
    /\ fate = [d \in Docs |-> "new"]
    /\ rows = [d \in Docs |-> NoRow]
    /\ s3 = {}
    /\ emitted = [d \in Docs |-> "none"]
    /\ stages = <<>>
    /\ lastError = "none"
    /\ retries = 0
    /\ alive = TRUE
    /\ taken = 0
    /\ caught = 0

GenerateReport ==
    /\ pc = "report"
    /\ state' = Report(Dict({}, <<>>), given)
    /\ pc' = "reported"
    /\ UNCHANGED <<watcher, fate, cur, s3, rows, emitted, stages, lastError, retries,
                   alive, taken, caught, given>>

SpecReport == InitReport /\ [][GenerateReport]_vars

(***************************************************************************)
(* validation_check_node.py: the expiry check of the rule functions.  An   *)
(* expiration date is absent, unparseable, or the midnight that begins the *)
(* day today + day; now is today's midnight or a later moment of today.    *)
(***************************************************************************)
ExpiryRules ==
    {"validate_driving_license", "validate_state_id", "validate_passport",
     "validate_permanent_resident_card", "validate_employment_authorization",
     "validate_military_id", "validate_generic_identity"}

\* The days argument of the rule function's call of is_date_expiring_soon.
LookaheadDays(rule) ==
    CASE rule \in {"validate_driving_license", "validate_state_id"} -> 30
      [] rule \in {"validate_passport", "validate_permanent_resident_card"} -> 180
      [] rule = "validate_employment_authorization" -> 90
      [] rule = "validate_military_id" -> 60

\* is_date_expired: parsed < datetime.now().
is_date_expired(date, afterMidnight) ==
    /\ date.text = "date"
    /\ date.day < 0 \/ (date.day = 0 /\ afterMidnight)

\* Mutation of lines 110-112: any future date is expiring soon.
is_date_expiring_soon_unbounded(date, days, afterMidnight) ==
    date.text = "date" /\ date.day > 0

\* is_date_expiring_soon: today < parsed < today + timedelta(days).
is_date_expiring_soon(date, days, afterMidnight) ==
    /\ date.text = "date"
    /\ date.day > 0
    /\ date.day < days \/ (date.day = days /\ afterMidnight)

\* The block "Expiration date check" of the rule function: what it adds to the result.
check_expiration(rule, date, afterMidnight) ==
    IF date.text = "absent" THEN [errors |-> {}, warnings |-> {}]
    ELSE IF rule = "validate_generic_identity"
    THEN [errors |-> {},
          warnings |-> IF is_date_expired(date, afterMidnight) THEN {"expired"} ELSE {}]
    ELSE IF is_date_expired(date, afterMidnight)
    THEN [errors |-> {"expired"}, warnings |-> {}]
    ELSE [errors |-> {},
          warnings |-> IF is_date_expiring_soon(date, LookaheadDays(rule), afterMidnight)
                       THEN {"expiring soon"} ELSE {}]

ExpirationDates ==
    {[text |-> "absent", day |-> 0], [text |-> "unparseable", day |-> 0]}
        \cup [text : {"date"},
              day : {-400, -1, 0, 1, 10, 29, 30, 31, 59, 60, 61, 89, 90, 91, 179, 180,
                     181, 400}]

InitExpiry ==
    /\ given \in [rule : ExpiryRules, date : ExpirationDates, afterMidnight : BOOLEAN]
    /\ state = [errors |-> {}, warnings |-> {}]
    /\ pc = "check"
    /\ watcher = WatcherInit
    /\ cur = 0
    /\ fate = [d \in Docs |-> "new"]
    /\ rows = [d \in Docs |-> NoRow]
    /\ s3 = {}
    /\ emitted = [d \in Docs |-> "none"]
    /\ stages = <<>>
    /\ lastError = "none"
    /\ retries = 0
    /\ alive = TRUE
    /\ taken = 0
    /\ caught = 0

CheckExpiry ==
    /\ pc = "check"
    /\ state' = check_expiration(given.rule, given.date, given.afterMidnight)
    /\ pc' = "checked"
    /\ UNCHANGED <<watcher, fate, cur, s3, rows, emitted, stages, lastError, retries,
                   alive, taken, caught, given>>

SpecExpiry == InitExpiry /\ [][CheckExpiry]_vars

(***************************************************************************)
(* validation_check_node.py: ValidationResult, filled by a rule function   *)
(* one outcome at a time, then lines 616-692 of ValidationCheck.  The      *)
(* lists are modelled by their lengths, which saturate.                    *)
(***************************************************************************)
NewValidationResult == [passed |-> TRUE, warnings |-> 0, errors |-> 0, info |-> 0]

\* ValidationResult.add_warning, add_error and add_info.
add_outcome(result, kind) ==
    CASE kind = "warning" -> [result EXCEPT !.warnings = Sat(@), !.passed = FALSE]
      [] kind = "error" -> [result EXCEPT !.errors = Sat(@), !.passed = FALSE]
      [] kind = "info" -> [result EXCEPT !.info = Sat(@)]

\* Mutation of add_warning: a warning leaves passed alone.
add_outcome_warningPasses(result, kind) ==
    CASE kind = "warning" -> [result EXCEPT !.warnings = Sat(@)]
      [] kind = "error" -> [result EXCEPT !.errors = Sat(@), !.passed = FALSE]
      [] kind = "info" -> [result EXCEPT !.info = Sat(@)]

\* A document that passed Classification and went through Extract.
InitResult ==
    /\ \E m \in Messages, o \in OcrRuns, reply \in Replies, x \in ExtractRuns :
         /\ m.hasKey
         /\ ~o.raises
         /\ \E w \in {Extract(Classification(
                                World(Populated(m, o), [d \in Docs |-> "running"],
                                      {<<"doc", 1>>, <<"meta", 1>>},
                                      [d \in Docs |-> IF d = 1 THEN NewRow ELSE NoRow],
                                      [d \in Docs |-> "none"]),
                                reply), x)} :
              /\ w.err = "none"
              /\ w.st.classification.passed
              /\ state = w.st
              /\ s3 = w.s3
              /\ rows = w.rows
              /\ emitted = w.emitted
    /\ given = [result |-> NewValidationResult, dbOk |-> TRUE]
    /\ pc = "rules"
    /\ watcher = WatcherInit
    /\ cur = 1
    /\ fate = [d \in Docs |-> IF d = 1 THEN "running" ELSE "new"]
    /\ stages = <<>>
    /\ lastError = "none"
    /\ retries = 0
    /\ alive = TRUE
    /\ taken = 0
    /\ caught = 0

\* The rule function records one more outcome.
RuleOutcome ==
    /\ pc = "rules"
    /\ \E kind \in {"warning", "error", "info"} :
         given' = [given EXCEPT !.result = add_outcome(@, kind)]
    /\ UNCHANGED <<watcher, fate, cur, pc, state, s3, rows, emitted, stages, lastError,
                   retries, alive, taken, caught>>

\* The rule function returns and ValidationCheck goes on with its result.
FinishValidation ==
    /\ pc = "rules"
    /\ \E dbOk \in BOOLEAN :
       \E w \in {ValidationCheck(Current, [raises |-> FALSE,
                                           passed |-> given.result.passed,
                                           dbOk |-> dbOk])} :
         /\ state' = w.st
         /\ s3' = w.s3
         /\ rows' = w.rows
         /\ emitted' = w.emitted
         /\ stages' = w.log
         /\ lastError' = w.err
         /\ given' = [given EXCEPT !.dbOk = dbOk]
    /\ pc' = "validated"
    /\ UNCHANGED <<watcher, fate, cur, retries, alive, taken, caught>>

NextResult ==
    \/ RuleOutcome
    \/ FinishValidation

SpecResult == InitResult /\ [][NextResult]_vars

(***************************************************************************)
(* The display-name resolver applied to its own result.                    *)
(***************************************************************************)
\* Every label a return statement of lines 19-116 names.
ReturnedSubtypes == allowed_types \cup {"aadhaar_card"}

\* The hints offered as display names: the names of the uploads and the labels.
DisplayHints == DbNames \cup MetaNames \cup ReturnedSubtypes

InitResolve ==
    /\ given \in [hint : DisplayHints, first : {""}]
    /\ state = ""
    /\ pc = "hint"
    /\ watcher = WatcherInit
    /\ cur = 0
    /\ fate = [d \in Docs |-> "new"]
    /\ rows = [d \in Docs |-> NoRow]
    /\ s3 = {}
    /\ emitted = [d \in Docs |-> "none"]
    /\ stages = <<>>
    /\ lastError = "none"
    /\ retries = 0
    /\ alive = TRUE
    /\ taken = 0
    /\ caught = 0

\* subtype = _map_display_name_to_identity_subtype(hint)
Resolve ==
    /\ pc = "hint"
    /\ state' = _map_display_name_to_identity_subtype(given.hint)
    /\ pc' = "resolved"
    /\ UNCHANGED <<watcher, fate, cur, s3, rows, emitted, stages, lastError, retries,
                   alive, taken, caught, given>>

\* The label returned is handed back as the display name.
ResolveAgain ==
    /\ pc = "resolved"
    /\ given' = [given EXCEPT !.first = state]
    /\ state' = _map_display_name_to_identity_subtype(state)
    /\ pc' = "resolved again"
    /\ UNCHANGED <<watcher, fate, cur, s3, rows, emitted, stages, lastError, retries,
                   alive, taken, caught>>

NextResolve == Resolve \/ ResolveAgain

SpecResolve == InitResolve /\ [][NextResolve]_vars

(***************************************************************************)
(* Classification with an oracle that may answer outside its vocabulary.   *)
(***************************************************************************)
\* Lines 357-370: the names the name oracle is told to answer with.
DocumentNames ==
    {"Driver's License", "State ID", "Passport", "Passport Card", "Aadhaar Card",
     "Social Security Card", "Birth Certificate", "Marriage Certificate",
     "Permanent Resident Card", "Military ID", "Professional License", "Utility Bill",
     "Bank Statement", "Unknown Document"}

\* The oracle's answers, a subtype and a name outside the vocabularies among them.
OracleReplies ==
    { r \in [subtypeOk : BOOLEAN, subtype : SubtypeLabels \cup {""}, nameOk : BOOLEAN,
             name : NameReplies \cup {"Library Card"}] :
        /\ r.subtypeOk <=> r.subtype # ""
        /\ ~r.nameOk => r.name = "" }

InitOracle ==
    /\ watcher = WatcherInit
    /\ \E m \in AllMessages, o \in AllOcrRuns :
         /\ m.hasKey
         /\ ~o.raises
         /\ state = Populated(m, o)
    /\ given \in OracleReplies
    /\ pc = "Document Classification"
    /\ cur = 1
    /\ fate = [d \in Docs |-> IF d = 1 THEN "running" ELSE "new"]
    /\ s3 = {<<"doc", 1>>, <<"meta", 1>>}
    /\ rows = [d \in Docs |-> IF d = 1 THEN NewRow ELSE NoRow]
    /\ emitted = [d \in Docs |-> "none"]
    /\ stages = <<"Ingestion", "Tamper Check", "OCR">>
    /\ lastError = "none"
    /\ retries = 0
    /\ alive = TRUE
    /\ taken = 0
    /\ caught = 0

SpecOracle == InitOracle /\ [][Classify]_vars

(***************************************************************************)
(* The subtype comparison of Classification in both directions.            *)
(***************************************************************************)
InitMismatch ==
    /\ given \in [expected : ReturnedSubtypes, detected : ReturnedSubtypes]
    /\ state = [forward |-> FALSE, backward |-> FALSE]
    /\ pc = "compare"
    /\ watcher = WatcherInit
    /\ cur = 0
    /\ fate = [d \in Docs |-> "new"]
    /\ rows = [d \in Docs |-> NoRow]
    /\ s3 = {}
    /\ emitted = [d \in Docs |-> "none"]
    /\ stages = <<>>
    /\ lastError = "none"
    /\ retries = 0
    /\ alive = TRUE
    /\ taken = 0
    /\ caught = 0

\* Lines 514-544 on the pair, and on the pair with the two types exchanged.
CompareSubtypes ==
    /\ pc = "compare"
    /\ state' = [forward |-> subtype_mismatch(given.expected, given.detected),
                 backward |-> subtype_mismatch(given.detected, given.expected)]
    /\ pc' = "compared"
    /\ UNCHANGED <<watcher, fate, cur, s3, rows, emitted, stages, lastError, retries,
                   alive, taken, caught, given>>

SpecMismatch == InitMismatch /\ [][CompareSubtypes]_vars

(***************************************************************************)
(* The field normalizer of extraction_node.py.  A value carries its Python *)
(* type; a dictionary is a function on its keys.                           *)
(***************************************************************************)
List(n) == <<"list", n>>
Number(n) == <<"int", n>>

\* Lines 25-215, the entries of three of the 36 document types.
DOC_FIELDS ==
    [h1b_visa |->
        <<"firstName", "middleName", "lastName", "suffix", "dateOfBirth",
          "issuingCountry", "expirationDate", "visaNumber", "petitionNumber">>,
     identity_document |->
        <<"firstName", "middleName", "lastName", "suffix", "dob", "dateOfBirth",
          "address", "addressLine1", "addressLine2", "city", "state", "zip", "country",
          "idNumber", "documentNumber", "passportNumber", "licenseNumber", "issueDate",
          "expirationDate", "dateIssued", "issuingAuthority", "nationality",
          "placeOfBirth", "sex", "height", "weight", "eyeColor", "hairColor">>,
     other |->
        <<"firstName", "middleName", "lastName", "suffix", "dob", "dateOfBirth",
          "address", "city", "state", "zip", "country", "idNumber", "passportNumber",
          "accountNumber", "ssn", "issueDate", "expirationDate", "dateIssued",
          "residentSince", "documentType">>]

_EMPTY_STRINGS == {"", "n/a", "na", "none", "null"}

\* Mutation of line 229: the placeholders are compared without lowering the string.
_is_empty_value_caseSensitive(v) ==
    CASE v = PyNone -> TRUE
      [] v[1] = "str" -> Lower(v[2]) = "" \/ v[2] \in _EMPTY_STRINGS
      [] v[1] = "list" -> v[2] = 0
      [] OTHER -> FALSE

_is_empty_value(v) ==
    CASE v = PyNone -> TRUE
      [] v[1] = "str" -> Lower(v[2]) = "" \/ Lower(v[2]) \in _EMPTY_STRINGS
      [] v[1] = "list" -> v[2] = 0
      [] OTHER -> FALSE

_ALIAS_GROUPS == << <<"dob", "dateOfBirth">>, <<"issueDate", "dateIssued">> >>

Elements(list) == {list[i] : i \in DOMAIN list}

\* Mutation of line 249: the keys of the map given are kept and none is added.
_postprocess_complete_schema_keysGiven(cleaned, fields) ==
    Dict(DOMAIN cleaned, cleaned)

_postprocess_complete_schema(cleaned, fields) ==
    [f \in Elements(fields) |-> IF f \in DOMAIN cleaned THEN cleaned[f] ELSE Str("")]

\* Lines 257-273 for one group: the first key with a value is kept, the others go.
DedupeGroup(result, group) ==
    LET valued == {i \in DOMAIN group :
                      group[i] \in DOMAIN result /\ ~_is_empty_value(result[group[i]])}
        keep_key == IF valued = {} THEN {}
                    ELSE {group[CHOOSE i \in valued : \A j \in valued : i <= j]}
    IN  Dict(DOMAIN result \ (Elements(group) \ keep_key), result)

\* Mutation of lines 266-270: the keys that lost are left in place.
_dedupe_aliases_keepsAll(data) ==
    data

_dedupe_aliases(data) ==
    DedupeGroup(DedupeGroup(data, _ALIAS_GROUPS[1]), _ALIAS_GROUPS[2])

_drop_empty_fields(data) ==
    Dict({k \in DOMAIN data : ~_is_empty_value(data[k])}, data)

_validate_extracted_fields(extracted, expected_fields) ==
    Dict(DOMAIN extracted \cap Elements(expected_fields), extracted)

\* Lines 299-334.  The keys of the input are written as the field each of them
\* matches when lowered; no field name holds "_" or " ", so the variations of lines
\* 315-320 are the lowered name itself.
_fallback_extraction(normalized_input, fields) ==
    [f \in Elements(fields) |->
        IF f \in DOMAIN normalized_input THEN normalized_input[f] ELSE Str("")]

\* Lines 344-404.  reply is what the model answered (parsed), or "raises" with the
\* OCR input the fallback reads.
extract_fields_with_gpt(input_json, doc_type, reply) ==
    LET doc_type_key == IF Lower(doc_type) \in DOMAIN DOC_FIELDS THEN Lower(doc_type)
                        ELSE "other"
        fields == DOC_FIELDS[doc_type_key]
        raw == IF reply.raises THEN _fallback_extraction(input_json, fields)
               ELSE _validate_extracted_fields(reply.json, fields)
        complete == _postprocess_complete_schema(raw, fields)
        deduped == _dedupe_aliases(complete)
        final_clean == _drop_empty_fields(deduped)
    IN  [fields |-> fields, complete |-> complete, deduped |-> deduped,
         final_clean |-> final_clean]

\* The maps offered: one field with every kind of value, the four alias keys, and a
\* key no document type expects.
Absent == <<"absent">>
FieldValues ==
    {PyNone, Str(""), Str(" "), Str("N/A"), Str("NA"), Str(" None "), Str("NULL"),
     Str("John"), List(0), List(1), Number(0)}
BirthValues == {Str(""), Str("1990-01-01"), Str("1991-02-02")}
IssueValues == {Str("N/A"), Str("2020-05-05")}
FieldChoices ==
    [firstName : FieldValues \cup {Absent}, dob : BirthValues \cup {Absent},
     dateOfBirth : BirthValues \cup {Absent}, issueDate : IssueValues \cup {Absent},
     dateIssued : IssueValues \cup {Absent}, nickname : {Str("Jo"), Absent}]
FieldMap(c) == Dict({k \in DOMAIN c : c[k] # Absent}, c)
DocTypes == {"identity_document", "H1B_Visa", "library_card"}

InitNormalize ==
    /\ given \in [doc_type : DocTypes, choice : FieldChoices, raises : BOOLEAN]
    /\ state = [fields |-> <<>>, complete |-> <<>>, deduped |-> <<>>,
                final_clean |-> <<>>]
    /\ pc = "extract"
    /\ watcher = WatcherInit
    /\ cur = 0
    /\ fate = [d \in Docs |-> "new"]
    /\ rows = [d \in Docs |-> NoRow]
    /\ s3 = {}
    /\ emitted = [d \in Docs |-> "none"]
    /\ stages = <<>>
    /\ lastError = "none"
    /\ retries = 0
    /\ alive = TRUE
    /\ taken = 0
    /\ caught = 0

\* cleaned = extract_fields_with_gpt(input_for_cleaner, mapped_doc_type)
Normalize ==
    /\ pc = "extract"
    /\ state' = extract_fields_with_gpt(FieldMap(given.choice), given.doc_type,
                                        [raises |-> given.raises,
                                         json |-> FieldMap(given.choice)])
    /\ pc' = "extracted"
    /\ UNCHANGED <<watcher, fate, cur, s3, rows, emitted, stages, lastError, retries,
                   alive, taken, caught, given>>

SpecNormalize == InitNormalize /\ [][Normalize]_vars

(***************************************************************************)
(* tamper_check statement by statement: the status after each of its       *)
(* checks, for a file and the check at which the analysis raises, if any.  *)
(***************************************************************************)
TamperedFiles ==
    { f \in [pdf : BOOLEAN, pdfIssues : BOOLEAN, datesReversed : BOOLEAN,
             baseline : {"none", "same", "differs"},
             raisesAt : {"never", "content", "metadata", "baseline"}] :
        f.pdfIssues => f.pdf }

\* Lines 125-176: what a check that does not raise leaves in results["status"].
StatusAtStep(step, status, f) ==
    CASE step = "content" -> IF f.pdf /\ f.pdfIssues THEN "SUSPICIOUS" ELSE status
      [] step = "metadata" -> IF f.datesReversed THEN "SUSPICIOUS" ELSE status
      [] step = "baseline" -> IF f.baseline = "differs" THEN "TAMPERED" ELSE status
      [] OTHER -> status

\* Mutation: the baseline is compared before the timestamps are.
StepAfter_baselineFirst(step) ==
    CASE step = "content" -> "baseline"
      [] step = "baseline" -> "metadata"
      [] step = "metadata" -> "image"
      [] OTHER -> "returned"

\* The order of the checks in lines 125-183.
StepAfter(step) ==
    CASE step = "content" -> "metadata"
      [] step = "metadata" -> "baseline"
      [] step = "baseline" -> "image"
      [] OTHER -> "returned"

InitTamper ==
    /\ given \in TamperedFiles
    /\ state = [status |-> "OK", seen |-> <<"OK">>]
    /\ pc = "content"
    /\ watcher = WatcherInit
    /\ cur = 0
    /\ fate = [d \in Docs |-> "new"]
    /\ rows = [d \in Docs |-> NoRow]
    /\ s3 = {}
    /\ emitted = [d \in Docs |-> "none"]
    /\ stages = <<>>
    /\ lastError = "none"
    /\ retries = 0
    /\ alive = TRUE
    /\ taken = 0
    /\ caught = 0

\* One check of tamper_check, or the except branch of lines 181-183 in its place.
TamperStep ==
    /\ pc \in {"content", "metadata", "baseline", "image"}
    /\ \E status \in {IF given.raisesAt = pc THEN "ERROR"
                      ELSE StatusAtStep(pc, state.status, given)} :
          state' = [status |-> status, seen |-> Append(state.seen, status)]
    /\ pc' = IF given.raisesAt = pc THEN "returned" ELSE StepAfter(pc)
    /\ UNCHANGED <<watcher, fate, cur, s3, rows, emitted, stages, lastError, retries,
                   alive, taken, caught, given>>

SpecTamper == InitTamper /\ [][TamperStep]_vars

(***************************************************************************)
(* handle_ready_pair on its own, handed the pair (FPCID, LMRId) its        *)
(* signature names: every table of two rows, every processed set, every    *)
(* answer of the services.                                                 *)
(***************************************************************************)
CaseRows ==
    { r \in [exists : BOOLEAN, document_status : {"NULL"}, cross_validation : BOOLEAN,
             doc_verification_result : {"NULL"}, verified_result_s3_path : BOOLEAN] :
        ~r.exists => ~r.cross_validation /\ ~r.verified_result_s3_path }

InitPair ==
    /\ rows \in [Docs -> CaseRows]
    /\ given \in [run : WatcherRuns,
                  processed_docs : SUBSET {<<"result", d>> : d \in Docs}]
    /\ state = [err |-> "none", paths |-> {}, validated |-> FALSE, reported |-> FALSE,
                updated |-> FALSE]
    /\ pc = "ready"
    /\ watcher = WatcherInit
    /\ cur = 0
    /\ fate = [d \in Docs |-> "new"]
    /\ s3 = {}
    /\ emitted = [d \in Docs |-> "none"]
    /\ stages = <<>>
    /\ lastError = "none"
    /\ retries = 0
    /\ alive = TRUE
    /\ taken = 0
    /\ caught = 0

\* updated_docs = handle_ready_pair(pair, ..., processed_docs=processed_docs[pair])
HandlePair ==
    /\ pc = "ready"
    /\ state' = handle_ready_pair(<<"3363", "45">>, rows, given.processed_docs, given.run)
    /\ pc' = "handled"
    /\ UNCHANGED <<watcher, fate, cur, s3, rows, emitted, stages, lastError, retries,
                   alive, taken, caught, given>>

SpecPair == InitPair /\ [][HandlePair]_vars

(***************************************************************************)
(* Properties.                                                             *)
(***************************************************************************)
MissingPredecessor == {"IngestionStateMissing", "TamperStateMissing", "OCRStateMissing",
                       "OCROrClassificationMissing", "ExtractionStateMissing"}

StageOrder == <<"Ingestion", "Tamper Check", "OCR", "Document Classification",
                "Document Data Extraction", "Validation Check">>

IsPrefix(a, b) == Len(a) <= Len(b) /\ \A i \in 1..Len(a) : a[i] = b[i]

\* C1: every document whose run is over reached the end of the pipeline with a
\* verification result generated and the status column of its row written, and its
\* document and sidecar metadata are still in the bucket.
C1_EveryDocumentReachesDone ==
    \A d \in Docs :
        fate[d] \in {"finished", "error"} =>
            /\ fate[d] = "finished"
            /\ emitted[d] # "none"
            /\ rows[d].document_status # "NULL"
            /\ <<"doc", d>> \in s3
            /\ <<"meta", d>> \in s3

\* C2: a run that was sent back to OCR after a failed classification ends: the
\* loop between OCR and classification is left after finitely many rounds.
C2_RetryLoopEnds == (pc = "OCR" /\ retries > 0) ~> (pc = "idle")

\* C3: in a worker run the stages are entered in the order Ingestion, Tamper Check,
\* OCR, Classification, Extraction, Validation, none skipped, and no stage raises
\* because the state of its predecessor is missing.
C3_StagesInOrder ==
    /\ IsPrefix(stages, StageOrder)
    /\ lastError \notin MissingPredecessor

\* C4: the worker loop is stopped only by the operator's interrupt; after an
\* exception raised by a document's run the loop is still running.
C4_OnlyInterruptStopsWorker == alive \/ lastError = "KeyboardInterrupt"

\* C4, the case reached: an exception was caught and the loop took another document.
C4_CaughtAndWentOn == alive /\ lastError \notin {"none", "KeyboardInterrupt"}
                      /\ caught >= 1 /\ taken >= 2

\* C5: a document whose field extraction raised is recorded as failed: its
\* extraction state is not passed and the result generated for it is not "pass".
C5_ExtractionErrorIsFail ==
    (state.extraction.present /\ state.extraction.error) =>
        /\ ~state.extraction.passed
        /\ emitted[state.ingestion.doc] # "pass"

\* The checks of classification, from the ingested names, the OCR result and the
\* replies of the chat model.
C6_Expected == IF state.ingestion.agentIdentity THEN "identity"
               ELSE IF state.ingestion.category = "" THEN state.ocr.doc_type
               ELSE state.ingestion.category
C6_CategoryCheck == state.ocr.doc_type # "" /\ C6_Expected = state.ocr.doc_type
C6_NameCheck == \/ state.ingestion.metaName = ""
                \/ state.ingestion.name = ""
                \/ Lower(state.ingestion.metaName) = Lower(state.ingestion.name)
C6_SubtypeCheck ==
    (state.ocr.doc_type = "identity" /\ state.ingestion.name # "" /\ C6_NameCheck) =>
        \/ _map_display_name_to_identity_subtype(state.ingestion.name) \in GenericSubtypes
        \/ _guess_identity_subtype_from_ocr(state.ocr.page, given) \in GenericSubtypes
        \/ is_compatible(_map_display_name_to_identity_subtype(state.ingestion.name),
                         _guess_identity_subtype_from_ocr(state.ocr.page, given))
C6_ContentCheck ==
    (state.ocr.doc_type = "identity" /\ C6_NameCheck) =>
        \/ _extract_actual_document_name_from_ocr(state.ocr.page, given) = "Unknown Document"
        \/ is_valid_match(Lower(state.ingestion.name),
               Lower(_extract_actual_document_name_from_ocr(state.ocr.page, given)))

\* C6 (as stated): classification passes exactly when the category check, the
\* metadata-name check and the subtype check pass.
C6_PassedIffThreeChecks ==
    pc = "classified" =>
        (state.classification.passed <=>
            (C6_CategoryCheck /\ C6_NameCheck /\ C6_SubtypeCheck))

\* C6 (amended): classification passes exactly when four checks pass: category,
\* metadata name against database name, subtype compatibility, and the declared name
\* against the document name read from the content.
C6_PassedIffFourChecks ==
    pc = "classified" =>
        (state.classification.passed <=>
            (C6_CategoryCheck /\ C6_NameCheck /\ C6_SubtypeCheck /\ C6_ContentCheck))

\* C6, the case reached: the three checks pass, the content check fails, and the document
\* is not passed.
C6_FailsOnContentAlone ==
    /\ pc = "classified"
    /\ C6_CategoryCheck /\ C6_NameCheck /\ C6_SubtypeCheck /\ ~C6_ContentCheck
    /\ ~state.classification.passed

\* C7 (as stated): after TamperCheck human verification is required exactly when
\* the status is TAMPERED or ERROR.
C7_ReviewIffTamperedOrError ==
    state.tamper_check.present =>
        (state.tamper_check.hvr <=> state.tamper_check.status \in {"TAMPERED", "ERROR"})

\* C7 (amended): after TamperCheck human verification is required exactly when the
\* status is SUSPICIOUS, TAMPERED or ERROR, that is, whenever it is not OK; and OCR
\* is never refused on account of the tamper status.
C7_ReviewUnlessOK ==
    /\ state.tamper_check.present =>
          /\ state.tamper_check.status \in {"OK", "SUSPICIOUS", "TAMPERED", "ERROR"}
          /\ state.tamper_check.hvr <=>
                 state.tamper_check.status \in {"SUSPICIOUS", "TAMPERED", "ERROR"}
    /\ (state.tamper_check.present /\ state.ingestion.hasKey) =>
          lastError \notin MissingPredecessor

\* C7, the case reached: a SUSPICIOUS document requires human verification and went through OCR.
C7_SuspiciousReviewedAndRead ==
    /\ state.tamper_check.status = "SUSPICIOUS"
    /\ state.tamper_check.hvr
    /\ state.ocr.present
    /\ state.ocr.tamper_check_passed = FALSE

\* C8 (as stated): whenever TamperCheck was entered it returned with the tamper
\* state populated and the run went on to OCR.
C8_TamperCheckNeverAborts ==
    InLog(stages, "Tamper Check") =>
        /\ state.tamper_check.present
        /\ pc = "OCR" \/ InLog(stages, "OCR")

\* C8 (amended): whenever TamperCheck was entered for a document with a bucket and a
\* non-empty key it returned with the tamper state populated and the run went on to
\* OCR; when the download or the analysis failed the status is ERROR and human
\* verification is required.
C8_TamperCheckProceedsGivenKey ==
    (InLog(stages, "Tamper Check") /\ state.ingestion.hasKey) =>
        /\ state.tamper_check.present
        /\ pc = "OCR" \/ InLog(stages, "OCR")
        /\ state.tamper_check.failed =>
              (state.tamper_check.status = "ERROR" /\ state.tamper_check.hvr)

\* C8, the case reached: the tamper check failed internally and OCR populated its state after it.
C8_FailedCheckThenOCR ==
    /\ state.tamper_check.failed
    /\ state.tamper_check.status = "ERROR"
    /\ state.ocr.present

NextCase ==
    \/ NextGraph
    \/ Poll

SpecCase == Init /\ [][NextCase]_vars

\* The executor runs the next node of a run in progress, and the watcher's loop
\* goes on polling every interval.
FairSpecCase == SpecCase /\ WF_pc(RunStep) /\ WF_vars(Poll)

\* C12: once every document of the case has completed the pipeline, the watcher
\* eventually runs the validation of the case.
C12_CompletedCaseIsReconciled ==
    (\A d \in Docs : fate[d] = "finished") ~> (watcher.validations > 0)

\* C13: no message sent after the worker process started is discarded as backlog.
\* Every message of the model is sent by Upload, after main has started.
C13_NoDiscardAfterStart == \A d \in Docs : fate[d] # "skipped"

\* C14: Ingestion deletes a message only when it has handed the document over
\* (ingestion state populated); no message whose hand-off failed is deleted.
C14_DeleteOnlyAfterHandoff == \A d \in Docs : fate[d] # "dropped"

\* The key of the call resolves: the three identifiers are given and a row matches.
KeyResolves(c, table) ==
    c.FPCID /\ c.checklistId /\ c.document_name # "" /\ table[c.d].exists

\* The columns the call supplies with a value that is not None.
Supplied(c) == {col \in DOMAIN c.updates : c.updates[col] # None}

PopulatedReference == {f \in REFERENCE_FIELDS : given.borrower_data[f] # ""}

\* Thirty times the share of the documents that agree on the city (all of it when
\* fewer than two documents give one).
CityAgreement30 ==
    LET cities == {given.extracted_docs[d].city : d \in ValDocs} \ {""}
        agree == \A a, b \in cities : Same(a, b, given.oracle)
    IN  IF agree THEN 30 ELSE 15

\* C16: a consensus run yields an integer score between 0 and 100; in reference mode
\* it is the share of matching reference fields times 70 plus the cross-document
\* agreement on the other fields times 30, also when the borrower record populates no
\* reference field (nothing to contradict: the whole 70).
C16_ScoreIsWeightedAgreement ==
    (pc = "validated" /\ given.oracle # "no key") =>
        /\ state.raised = "none"
        /\ state.score \in 0..100
        /\ given.borrower_data.present =>
              state.score * Cardinality(PopulatedReference) =
                  IF PopulatedReference = {} THEN 0
                  ELSE 70 * Cardinality({f \in PopulatedReference :
                                            state.fields[f] = "MATCH"})
                           + CityAgreement30 * Cardinality(PopulatedReference)

\* C17: the recommendation depends on the score alone: APPROVE (HIGH) from 95,
\* APPROVE (MEDIUM-HIGH) from 85 to 94, REVIEW (MEDIUM) from 70 to 84, REJECT (LOW)
\* below 70; the status is PASS exactly from 85.
C17_RecommendationByScore ==
    pc = "reported" =>
        /\ <<state.action, state.confidence>> =
              CASE given >= 95 -> <<"APPROVE", "HIGH">>
                [] given \in 85..94 -> <<"APPROVE", "MEDIUM-HIGH">>
                [] given \in 70..84 -> <<"REVIEW", "MEDIUM">>
                [] OTHER -> <<"REJECT", "LOW">>
        /\ state.status = "PASS" <=> given >= 85
        /\ state.status \in {"PASS", "FAIL"}

\* C17, the case reached: the score 85 passed with APPROVE (MEDIUM-HIGH).
C17_PassAt85 ==
    /\ pc = "reported"
    /\ given = 85
    /\ state.status = "PASS"
    /\ state.action = "APPROVE"
    /\ state.confidence = "MEDIUM-HIGH"

\* C18: in reference mode a reference field is reported MATCH exactly when every
\* document that gives a value for it agrees with the reference; in particular a
\* reference field that no document gives is MATCH.
C18_MatchIffSuppliedValuesAgree ==
    (pc = "validated" /\ given.borrower_data.present /\ state.raised = "none") =>
        \A f \in PopulatedReference :
            /\ f \in DOMAIN state.fields
            /\ state.fields[f] = "MATCH" <=>
                   \A d \in ValDocs :
                       given.extracted_docs[d][f] # "" =>
                           Same(given.borrower_data[f], given.extracted_docs[d][f],
                                given.oracle)

\* C18, the case reached: no document gives the first name and it is MATCH, while a
\* document contradicts the date of birth, which is not.
C18_AbsentFieldMatches ==
    /\ pc = "validated"
    /\ given.borrower_data.present
    /\ PopulatedReference = REFERENCE_FIELDS
    /\ \A d \in ValDocs : given.extracted_docs[d].borrowerName = ""
    /\ state.raised = "none"
    /\ state.fields["borrowerName"] = "MATCH"
    /\ state.fields["borrowerDOB"] # "MATCH"

\* C19: when the chat model is unavailable the run does not abort and a report is
\* produced, each reference comparison being decided by equality of the trimmed,
\* case-folded strings.
C19_FallbackStillReports ==
    (pc = "validated" /\ given.oracle = "unavailable") =>
        /\ state.raised = "none"
        /\ state.status \in {"PASS", "FAIL"}
        /\ given.borrower_data.present =>
              \A f \in PopulatedReference :
                  state.fields[f] = "MATCH" <=>
                      \A d \in ValDocs :
                          given.extracted_docs[d][f] # "" =>
                              Upper(given.extracted_docs[d][f]) =
                                  Upper(given.borrower_data[f])

\* C20: a document is validated by the rule function registered for the document type
\* it was resolved as (the passport rules for a passport), and by the generic identity
\* rule only when the table has no entry for that type.
C20_RuleOfResolvedType ==
    (pc = "validated" /\ state.classification.passed) =>
        given = IF state.classification.subtype_detected \in DOMAIN VALIDATION_FUNCTIONS
                THEN VALIDATION_FUNCTIONS[state.classification.subtype_detected]
                ELSE "validate_generic_identity"

\* C21 as stated: in every rule function that checks expiry a date before today gives
\* the error "expired", a date within the lookahead window a warning and no error, a
\* later date neither.
C21_ExpiredIsErrorEverywhere ==
    (pc = "checked" /\ given.date.text = "date") =>
        /\ given.date.day < 0 => (state.errors = {"expired"} /\ state.warnings = {})
        /\ (given.rule # "validate_generic_identity"
              /\ given.date.day > 0 /\ given.date.day < LookaheadDays(given.rule)) =>
                 (state.errors = {} /\ state.warnings = {"expiring soon"})
        /\ (given.rule # "validate_generic_identity"
              /\ given.date.day > LookaheadDays(given.rule)) =>
                 (state.errors = {} /\ state.warnings = {})

\* C21, amended: the type-specific rule functions give the error "expired" for a date
\* before today (and for today's date once midnight has passed), the warning
\* "expiring soon" and no error for a later date within the lookahead window (its last
\* day included once midnight has passed), and nothing for a later one; the generic
\* identity rule gives a warning, never an error, for an expired date and has no
\* lookahead window.
C21_ExpiryBySeverityOfRule ==
    pc = "checked" =>
        LET day == given.date.day
            dated == given.date.text = "date"
            past == dated /\ (day < 0 \/ (day = 0 /\ given.afterMidnight))
            soon == /\ dated /\ day > 0
                    /\ given.rule # "validate_generic_identity"
                    /\ \/ day < LookaheadDays(given.rule)
                       \/ day = LookaheadDays(given.rule) /\ given.afterMidnight
        IN  /\ state.errors =
                  IF past /\ given.rule # "validate_generic_identity"
                  THEN {"expired"} ELSE {}
            /\ state.warnings =
                  IF past /\ given.rule = "validate_generic_identity" THEN {"expired"}
                  ELSE IF soon THEN {"expiring soon"}
                  ELSE {}

\* C21, the case reached: a state ID that expires in ten days got the warning and no
\* error.
C21_TenDaysWarned ==
    /\ pc = "checked"
    /\ given.rule = "validate_state_id"
    /\ given.date = [text |-> "date", day |-> 10]
    /\ state = [errors |-> {}, warnings |-> {"expiring soon"}]

\* C22: after any sequence of rule outcomes passed is false exactly when a warning or
\* an error was recorded, and a failed validation leaves the document marked as
\* needing human verification (unless the database raised), neither rejected nor
\* deleted.
C22_FailMeansHumanVerification ==
    /\ given.result.passed <=> (given.result.warnings = 0 /\ given.result.errors = 0)
    /\ (pc = "validated" /\ ~given.result.passed) =>
          /\ <<"doc", 1>> \in s3
          /\ rows[1].exists
          /\ rows[1].document_status # "fail"
          /\ given.dbOk => rows[1].document_status = "human verification needed"

\* C23: the resolver is idempotent: a label it returned, resolved again as a display
\* name, comes back unchanged.
C23_ResolverIdempotent ==
    pc = "resolved again" => state = given.first

\* C24: no label from outside the closed vocabularies reaches the mismatch checks of
\* Classification: the subtype compared is one of the document types and the name
\* compared with the claimed name is one of the document names.
C24_OnlyVocabularyReachesChecks ==
    pc = "classified" /\ state.classification.present =>
        /\ state.classification.subtype_detected \in ReturnedSubtypes \cup {""}
        /\ state.classification.actual_document_name \in DocumentNames \cup {""}

\* C25: the subtype mismatch is symmetric (A against B mismatches exactly when B
\* against A does), and it is reported only when both types are specific and no
\* compatible group holds both.
C25_MismatchSymmetric ==
    pc = "compared" =>
        /\ state.forward <=> state.backward
        /\ state.forward =>
              /\ given.expected \notin {"other_identity", "identity_document"}
              /\ given.detected \notin {"other_identity", "identity_document"}
              /\ ~\E group \in compatible_groups :
                     given.expected \in group /\ given.detected \in group

\* C25, the case reached: a passport against a driving licence is a mismatch in both
\* directions.
C25_PassportAgainstLicense ==
    /\ pc = "compared"
    /\ given = [expected |-> "passport", detected |-> "driving_license"]
    /\ state = [forward |-> TRUE, backward |-> TRUE]

\* C26 as stated: the normalizer's output has exactly the expected fields of the
\* document type as its keys, as many as the expected-field list has entries.
C26_OutputHasExactlyExpectedFields ==
    pc = "extracted" =>
        /\ DOMAIN state.final_clean = Elements(state.fields)
        /\ Cardinality(DOMAIN state.final_clean) = Len(state.fields)

\* C26 as amended: the completed map of the first step has exactly the expected fields
\* as its keys (as many as the list has entries); the map returned holds no other key,
\* and holds an expected field exactly when its completed value is not empty and no
\* alias of higher priority has a value.
C26_CompleteThenPruned ==
    pc = "extracted" =>
        /\ DOMAIN state.complete = Elements(state.fields)
        /\ Cardinality(DOMAIN state.complete) = Len(state.fields)
        /\ DOMAIN state.final_clean \subseteq Elements(state.fields)
        /\ \A f \in Elements(state.fields) :
              f \in DOMAIN state.final_clean <=>
                 /\ ~_is_empty_value(state.complete[f])
                 /\ ~\E g \in {1, 2} :
                       /\ f = _ALIAS_GROUPS[g][2]
                       /\ _ALIAS_GROUPS[g][1] \in DOMAIN state.complete
                       /\ ~_is_empty_value(state.complete[_ALIAS_GROUPS[g][1]])

\* C26, the case reached: a reply with a name, a key nobody expects and nothing else
\* is completed to the 28 fields of an identity document and returned with one key.
C26_OneFieldOfTwentyEight ==
    /\ pc = "extracted"
    /\ ~given.raises
    /\ given.doc_type = "identity_document"
    /\ given.choice.nickname = Str("Jo")
    /\ Cardinality(DOMAIN state.complete) = 28
    /\ DOMAIN state.final_clean = {"firstName"}

\* C27: no value of the cleaned field map the normalizer returns is empty: none is
\* null, a string that trims to "", "n/a", "na", "none" or "null" in any case, or a
\* collection without elements.
C27_NoEmptyValueReturned ==
    pc = "extracted" =>
        \A k \in DOMAIN state.final_clean :
            LET v == state.final_clean[k]
            IN  /\ v # PyNone
                /\ v[1] = "str" => Lower(v[2]) \notin {"", "n/a", "na", "none", "null"}
                /\ v[1] = "list" => v[2] # 0

\* C27, the case reached: the model answered "N/A" for the name and a date of birth;
\* the name was completed, then pruned, and the date of birth returned.
C27_PlaceholderPruned ==
    /\ pc = "extracted"
    /\ ~given.raises
    /\ given.choice.firstName = Str("N/A")
    /\ state.complete["firstName"] = Str("N/A")
    /\ DOMAIN state.final_clean = {"dateOfBirth"}

Severity(status) ==
    CASE status = "OK" -> 0
      [] status = "SUSPICIOUS" -> 1
      [] status = "TAMPERED" -> 2
      [] status = "ERROR" -> 3

\* C29: within one run of tamper_check the status never moves to a less severe value:
\* in the order OK < SUSPICIOUS < TAMPERED < ERROR every status is at least as severe
\* as every status the run had before.
C29_StatusNeverLowered ==
    \A i, j \in DOMAIN state.seen :
        i <= j => Severity(state.seen[i]) <= Severity(state.seen[j])

\* C29, the case reached: a PDF with annotations, reversed timestamps and a baseline
\* that differs went from OK over SUSPICIOUS to TAMPERED and stayed there.
C29_RaisedTwice ==
    /\ pc = "returned"
    /\ given.pdfIssues /\ given.datesReversed /\ given.baseline = "differs"
    /\ state.seen = <<"OK", "SUSPICIOUS", "SUSPICIOUS", "TAMPERED", "TAMPERED">>

\* C30: handle_ready_pair adds documents to the processed set only after the case
\* report has been stored and the verified flag and report pointer have been written
\* to the rows; when validation, the report write or the flag update fails, the set is
\* returned as it was and no exception ends the watcher, so the case is retried on a
\* later poll.
C30_ProcessedOnlyAfterStored ==
    pc = "handled" =>
        /\ state.err = "none"
        /\ state.paths # given.processed_docs => state.reported /\ state.updated

====
